---- MODULE Spec2Model ----
(***************************************************************************)
(* ClockOR: a click-through clock overlay toggled by a global hotkey.      *)
(* The module models the configuration codec (config.rs), the geometry and *)
(* colour-key helpers and the window procedure (overlay.rs), the settings  *)
(* form (settings.rs) and the message loop (main.rs).                      *)
(*                                                                         *)
(* Strings that the code inspects character by character (hotkey strings)  *)
(* are sequences of one-character strings.  Enum values carry the Rust     *)
(* variant names; their serialised (kebab-case) names are separate.        *)
(***************************************************************************)
EXTENDS Integers, Sequences, FiniteSets, TLC

VARIABLES
    \* ---- the running program (main.rs, overlay.rs, settings.rs)
    pc,                \* where the main thread is: "start" | "top" | "menu" |
                       \* "msgs" | "wait" | "settings" | "exited" | "panicked"
    win,               \* overlay window: "None" | "Hidden" | "Visible" | "Destroyed"
    OVERLAY_VISIBLE,   \* main.rs static
    HOTKEY_REREGISTER, \* main.rs static
    OVERLAY_CONFIG,    \* overlay.rs static: None until Overlay::new, then Some(config)
    app,               \* the SettingsApp while the settings window is open
    posted,            \* thread messages posted and not yet retrieved
    timer_on,          \* SetTimer done and KillTimer not yet
    timer_due,         \* a WM_TIMER is pending
    paint_due,         \* the window has an invalid region (WM_PAINT pending)
    menu_events,       \* MenuEvent::receiver() channel
    registered,        \* the hot keys the OS holds under HOTKEY_ID: {<<modifiers, vk>>}
    win_rect,          \* the window's <<x, y, w, h>>
    win_alpha,         \* the window's layered alpha
    fg_monitor,        \* monitor of the current foreground window
    last_applied,      \* history: the config of the last settings Apply, if any
    applies,           \* history: the number of Apply clicks so far
    painted,           \* what the last WM_PAINT drew with, if there was one
    wnd_class,         \* RegisterClassW: "none" | "registered" | "failed"
    win_key,           \* the window's colour key (SetLayeredWindowAttributes)
    attempted,         \* the combination of the last RegisterHotKey call
    hotkey_error,      \* the hotkey named by the warning of the last attempt
    \* ---- hotkey codec (config.rs parse_hotkey, settings.rs build_hotkey_string)
    selected_mod,      \* SettingsApp.selected_mod (0-based index)
    selected_key,      \* SettingsApp.selected_key (0-based index)
    hotkey_str,        \* the hotkey string under test
    hotkey_parsed,     \* result of parse_hotkey(hotkey_str)
    hk_pc,             \* "select" | "built" | "parsed"
    hk_tokens,         \* the '+'-separated tokens a hand-written hotkey was typed as
    hk_pair,           \* the <<modifiers, vk>> that Config::parsed_hotkey returned
    \* ---- configuration file codec (config.rs load_from / save_to)
    file,              \* the config file at config_path()
    loaded,            \* result of the last Config::load_from
    ld_pc,             \* "stored" | "loaded"; "config" | "saved" | "save_failed"
    rt_config,         \* the Config that save_to is called on
    \* ---- geometry (overlay.rs calc_window_rect)
    g_config,          \* the config argument
    g_monitor,         \* the monitor argument <<x, y, w, h>>
    g_rect,            \* the returned <<x, y, w, h>>
    g_pc,              \* "input" | "done"
    \* ---- colour key (overlay.rs guard_color_key)
    c_in,              \* the COLORREF argument
    c_out,             \* the returned COLORREF
    c_pc,              \* "input" | "done"; "text" | "outline"
    c_rgb,             \* a colour field of the Config: <<R, G, B>>
    \* ---- the shared cell (overlay.rs OVERLAY_CONFIG: Arc<Mutex<Config>>)
    m_data,            \* the Config inside the Mutex, field by field
    m_lock,            \* who holds the Mutex: "free" | "reader" | "writer"
    wr_pc,             \* update_config: "idle" | "cloned" | "writing"
    wr_src,            \* the config update_config was called with
    wr_n,              \* fields stored so far
    rd_pc,             \* get_config: "idle" | "copying" | "done"
    rd_copy,           \* the clone get_config is building / has returned
    rd_n,              \* fields cloned so far
    written,           \* history: the configs given to the cell so far
    \* ---- the callers of the cell (overlay.rs wnd_proc, show; settings.rs Apply)
    h_kind,            \* the callback running: "none" | "WM_PAINT" | "WM_TIMER" | "show"
    rd_call,           \* where it is: "none" | "BeginPaint" | "get_config" | "os"
    wr_call,           \* Apply: "none" | "save" | "update_config"
    \* ---- one WM_PAINT, statement by statement (overlay.rs 131-203)
    p_pc,              \* the statement WM_PAINT is at
    p_config,          \* the config get_config returned
    p_brush,           \* key_brush: "none" | "live" | "failed" | "deleted"
    p_font,            \* font: "none" | "live" | "failed" | "deleted"
    p_selected,        \* the font selected into the DC: "old" | "font"
    p_fill,            \* the colour FillRect filled the client area with
    p_textcolor,       \* the DC's text colour (SetTextColor)
    p_draws,           \* the TextOutW calls made: <<dx, dy, colour>>
    p_seq,             \* the same calls in the order they were made
    p_paints,          \* paints finished
    \* ---- format_time (overlay.rs 114-122)
    t_config,          \* the config format_time is given
    now,               \* chrono::Local::now(): <<hour, minute, second>>
    time_str,          \* the String it returns
    t_pc               \* "input" | "done"

mainVars ==
    <<pc, win, OVERLAY_VISIBLE, HOTKEY_REREGISTER, OVERLAY_CONFIG, app, posted,
      timer_on, timer_due, paint_due, menu_events, registered, win_rect, win_alpha,
      fg_monitor, last_applied, applies, painted, wnd_class, win_key, attempted,
      hotkey_error>>

hotkeyVars ==
    <<selected_mod, selected_key, hotkey_str, hotkey_parsed, hk_pc, hk_tokens,
      hk_pair>>

loadVars == <<file, loaded, ld_pc, rt_config>>

geomVars == <<g_config, g_monitor, g_rect, g_pc>>

colorVars == <<c_in, c_out, c_pc, c_rgb>>

cellVars == <<m_data, m_lock, wr_pc, wr_src, wr_n, rd_pc, rd_copy, rd_n, written>>

callVars == <<h_kind, rd_call, wr_call>>

paintVars ==
    <<p_pc, p_config, p_brush, p_font, p_selected, p_fill, p_textcolor, p_draws,
      p_seq, p_paints>>

timeVars == <<t_config, now, time_str, t_pc>>

vars ==
    <<mainVars, hotkeyVars, loadVars, geomVars, colorVars, cellVars, callVars,
      paintVars, timeVars>>

\* What each of the specifications below leaves alone.  The program shares
\* the variable file with the load specification.
notMain ==
    <<hotkeyVars, loaded, ld_pc, rt_config, geomVars, colorVars, cellVars,
      callVars, paintVars, timeVars>>

notHotkey ==
    <<mainVars, loadVars, geomVars, colorVars, cellVars, callVars,
      paintVars, timeVars>>

notLoad ==
    <<mainVars, hotkeyVars, geomVars, colorVars, cellVars, callVars,
      paintVars, timeVars>>

notGeom ==
    <<mainVars, hotkeyVars, loadVars, colorVars, cellVars, callVars,
      paintVars, timeVars>>

notColor ==
    <<mainVars, hotkeyVars, loadVars, geomVars, cellVars, callVars,
      paintVars, timeVars>>

notCell ==
    <<mainVars, hotkeyVars, loadVars, geomVars, colorVars, callVars,
      paintVars, timeVars>>

notCall == <<mainVars, hotkeyVars, loadVars, geomVars, colorVars, paintVars, timeVars>>

notPaint ==
    <<mainVars, hotkeyVars, loadVars, geomVars, colorVars, cellVars, callVars,
      timeVars>>

notTime ==
    <<mainVars, hotkeyVars, loadVars, geomVars, colorVars, cellVars, callVars,
      paintVars>>

(***************************************************************************)
(* Generic helpers                                                         *)
(***************************************************************************)
Min(S) == CHOOSE x \in S : \A y \in S : x <= y

None == [some |-> FALSE]

Some(v) == [some |-> TRUE, val |-> v]

(***************************************************************************)
(* ASCII case folding, as used by str::eq_ignore_ascii_case                *)
(***************************************************************************)
UpperChars == <<"A", "C", "F", "H", "I", "L", "R", "S", "T", "Z">>

LowerChars == <<"a", "c", "f", "h", "i", "l", "r", "s", "t", "z">>

ToLower(c) ==
    IF \E i \in 1..Len(UpperChars) : UpperChars[i] = c
    THEN LowerChars[CHOOSE i \in 1..Len(UpperChars) : UpperChars[i] = c]
    ELSE c

ToUpper(c) ==
    IF \E i \in 1..Len(LowerChars) : LowerChars[i] = c
    THEN UpperChars[CHOOSE i \in 1..Len(LowerChars) : LowerChars[i] = c]
    ELSE c

IsLetter(c) == ToLower(c) # c \/ ToUpper(c) # c

SwapCase(c) == IF ToLower(c) # c THEN ToLower(c) ELSE ToUpper(c)

EqCaseSensitive(a, b) == a = b

EqIgnoreAsciiCase(a, b) ==
    /\ Len(a) = Len(b)
    /\ \A i \in 1..Len(a) : ToLower(a[i]) = ToLower(b[i])

(***************************************************************************)
(* config.rs: hotkey tables and parse_hotkey                               *)
(***************************************************************************)
MOD_ALT == 1

MOD_CONTROL == 2

MOD_SHIFT == 4

VK_F1 == 112

VK_F12 == 123

\* MOD_CONTROL | MOD_ALT etc.: the three masks are distinct bits, so | is +.
MODIFIER_OPTIONS ==
    << [name |-> <<"C", "t", "r", "l">>, code |-> MOD_CONTROL],
       [name |-> <<"A", "l", "t">>, code |-> MOD_ALT],
       [name |-> <<"S", "h", "i", "f", "t">>, code |-> MOD_SHIFT],
       [name |-> <<"C", "t", "r", "l", "+", "A", "l", "t">>,
        code |-> MOD_CONTROL + MOD_ALT],
       [name |-> <<"C", "t", "r", "l", "+", "S", "h", "i", "f", "t">>,
        code |-> MOD_CONTROL + MOD_SHIFT],
       [name |-> <<"A", "l", "t", "+", "S", "h", "i", "f", "t">>,
        code |-> MOD_ALT + MOD_SHIFT] >>

Digits == <<"0", "1", "2", "3", "4", "5", "6", "7", "8", "9">>

\* "F1" .. "F12" with VK_F1 .. VK_F12 (consecutive virtual-key codes).
KeyName(n) ==
    IF n < 10 THEN <<"F", Digits[n + 1]>>
    ELSE <<"F", Digits[(n \div 10) + 1], Digits[(n % 10) + 1]>>

KEY_OPTIONS == [n \in 1..12 |-> [name |-> KeyName(n), code |-> VK_F1 + (n - 1)]]

IsSpace(c) == c = " "

RECURSIVE TrimStart(_)
TrimStart(s) ==
    IF Len(s) > 0 /\ IsSpace(s[1]) THEN TrimStart(Tail(s)) ELSE s

RECURSIVE TrimEnd(_)
TrimEnd(s) ==
    IF Len(s) > 0 /\ IsSpace(s[Len(s)])
    THEN TrimEnd(SubSeq(s, 1, Len(s) - 1)) ELSE s

Trim(s) == TrimEnd(TrimStart(s))

\* str::split('+'): always at least one part; "a+" gives <<"a", "">>.
RECURSIVE SplitPlus(_)
SplitPlus(s) ==
    IF \A i \in 1..Len(s) : s[i] # "+"
    THEN <<s>>
    ELSE LET i == Min({k \in 1..Len(s) : s[k] = "+"})
         IN  <<SubSeq(s, 1, i - 1)>> \o SplitPlus(SubSeq(s, i + 1, Len(s)))

RECURSIVE JoinPlus(_)
JoinPlus(parts) ==
    IF Len(parts) = 0 THEN <<>>
    ELSE IF Len(parts) = 1 THEN parts[1]
    ELSE parts[1] \o <<"+">> \o JoinPlus(Tail(parts))

SplitTrim(hotkey) ==
    LET raw == SplitPlus(hotkey) IN [i \in 1..Len(raw) |-> Trim(raw[i])]

\* iter().position(|(name, _)| name.eq_ignore_ascii_case(s)): 0-based, or -1.
TablePosition(table, s) ==
    LET hits == {i \in 1..Len(table) : EqIgnoreAsciiCase(table[i].name, s)}
    IN  IF hits = {} THEN -1 ELSE Min(hits) - 1

parse_hotkey_first_modifier_only(hotkey) ==
    LET parts == SplitTrim(hotkey)
        k == TablePosition(KEY_OPTIONS, parts[Len(parts)])
        m == TablePosition(MODIFIER_OPTIONS, parts[1])
    IN  IF Len(parts) < 2 \/ k < 0 \/ m < 0 THEN None
        ELSE Some(<<MODIFIER_OPTIONS[m + 1].code, KEY_OPTIONS[k + 1].code>>)

parse_hotkey(hotkey) ==
    LET parts == SplitTrim(hotkey)
        k == TablePosition(KEY_OPTIONS, parts[Len(parts)])
        mod_str == JoinPlus(SubSeq(parts, 1, Len(parts) - 1))
        m == TablePosition(MODIFIER_OPTIONS, mod_str)
    IN  IF Len(parts) < 2 THEN None
        ELSE IF k < 0 THEN None
        ELSE IF m < 0 THEN None
        ELSE Some(<<MODIFIER_OPTIONS[m + 1].code, KEY_OPTIONS[k + 1].code>>)

\* A fallback that hands RegisterHotKey no modifier and no key.
parsed_hotkey_zero_fallback(config) ==
    LET r == parse_hotkey(config.hotkey)
    IN  IF r.some THEN r.val ELSE <<0, 0>>

\* Config::parsed_hotkey
parsed_hotkey(config) ==
    LET r == parse_hotkey(config.hotkey)
    IN  IF r.some THEN r.val ELSE <<MOD_CONTROL, VK_F12>>

(***************************************************************************)
(* settings.rs: build_hotkey_string                                        *)
(***************************************************************************)
build_hotkey_string(mod_idx, key_idx) ==
    MODIFIER_OPTIONS[mod_idx + 1].name \o <<"+">> \o KEY_OPTIONS[key_idx + 1].name

(***************************************************************************)
(* config.rs: Config, its defaults and its TOML codec                      *)
(*                                                                         *)
(* A file is missing, unreadable, syntactically invalid ("garbage") or a   *)
(* TOML document: a function from the Config keys to raw TOML values.      *)
(***************************************************************************)
ConfigKeys ==
    {"position", "format_24h", "show_seconds", "font_size", "opacity", "hotkey",
     "start_with_windows", "text_style", "text_color", "outline_color"}

Absent == [t |-> "absent"]

IntV(n) == [t |-> "int", n |-> n]

StrV(s) == [t |-> "str", s |-> s]

BoolV(b) == [t |-> "bool", b |-> b]

ArrV(a) == [t |-> "arr", a |-> a]

Positions == {"TopRight", "TopLeft", "BottomRight", "BottomLeft"}

TextStyles == {"None", "Outline", "Shadow"}

\* #[serde(rename_all = "kebab-case")] on Position and TextStyle
KebabCase(variant) ==
    CASE variant = "TopRight" -> "top-right"
      [] variant = "TopLeft" -> "top-left"
      [] variant = "BottomRight" -> "bottom-right"
      [] variant = "BottomLeft" -> "bottom-left"
      [] variant = "None" -> "none"
      [] variant = "Outline" -> "outline"
      [] variant = "Shadow" -> "shadow"

default_text_color == <<255, 255, 255>>

default_outline_color == <<0, 0, 0>>

CtrlF12 == <<"C", "t", "r", "l", "+", "F", "1", "2">>

DefaultConfig ==
    [position |-> "TopRight",
     format_24h |-> TRUE,
     show_seconds |-> FALSE,
     font_size |-> 22,
     opacity |-> 80,
     hotkey |-> CtrlF12,
     start_with_windows |-> FALSE,
     text_style |-> "Outline",
     text_color |-> default_text_color,
     outline_color |-> default_outline_color]

U8Max == 255

\* u32: every integer of this model is below 2^31, so a value fits a u32
\* exactly when it is not negative.
FitsU32(n) == n >= 0

\* Deserialisers: Some(value), or None for a serde error.
DeEnum(raw, variants) ==
    IF raw.t = "str" /\ \E v \in variants : KebabCase(v) = raw.s
    THEN Some(CHOOSE v \in variants : KebabCase(v) = raw.s)
    ELSE None

DeBool(raw) == IF raw.t = "bool" THEN Some(raw.b) ELSE None

DeU8(raw) == IF raw.t = "int" /\ raw.n >= 0 /\ raw.n <= U8Max THEN Some(raw.n) ELSE None

DeString(raw) == IF raw.t = "str" THEN Some(raw.s) ELSE None

DeColor(raw) ==
    IF /\ raw.t = "arr"
       /\ Len(raw.a) = 3
       /\ \A i \in 1..3 : raw.a[i] >= 0 /\ raw.a[i] <= U8Max
    THEN Some(raw.a) ELSE None

deserialize_font_size_no_legacy(raw) ==
    IF raw.t = "int" /\ FitsU32(raw.n) THEN Some(raw.n) ELSE None

\* untagged FontSizeValue: Number(u32) is tried first, then LegacyString.
deserialize_font_size(raw) ==
    IF raw.t = "int" /\ FitsU32(raw.n) THEN Some(raw.n)
    ELSE IF raw.t = "str" THEN
        CASE raw.s = "small" -> Some(16)
          [] raw.s = "medium" -> Some(22)
          [] raw.s = "large" -> Some(30)
          [] OTHER -> None
    ELSE None

DeField(key, raw) ==
    CASE key = "position" -> DeEnum(raw, Positions)
      [] key = "format_24h" -> DeBool(raw)
      [] key = "show_seconds" -> DeBool(raw)
      [] key = "font_size" -> deserialize_font_size(raw)
      [] key = "opacity" -> DeU8(raw)
      [] key = "hotkey" -> DeString(raw)
      [] key = "start_with_windows" -> DeBool(raw)
      [] key = "text_style" -> DeEnum(raw, TextStyles)
      [] key = "text_color" -> DeColor(raw)
      [] key = "outline_color" -> DeColor(raw)

\* A struct without #[serde(default)]: a missing key fails the whole parse.
from_str_no_default(doc) ==
    IF \E k \in ConfigKeys : doc[k] = Absent \/ ~DeField(k, doc[k]).some
    THEN None
    ELSE Some([k \in ConfigKeys |-> DeField(k, doc[k]).val])

\* A lenient parse: a key that fails to deserialise takes its Default value
\* and the other keys are kept.
from_str_field_default(doc) ==
    Some([k \in ConfigKeys |->
             IF doc[k] = Absent \/ ~DeField(k, doc[k]).some THEN DefaultConfig[k]
             ELSE DeField(k, doc[k]).val])

\* toml::from_str::<Config> with #[serde(default)]: a missing key takes the
\* Default value, a key that fails to deserialise fails the whole parse.
from_str(doc) ==
    IF \E k \in ConfigKeys : doc[k] # Absent /\ ~DeField(k, doc[k]).some
    THEN None
    ELSE Some([k \in ConfigKeys |->
                  IF doc[k] = Absent THEN DefaultConfig[k]
                  ELSE DeField(k, doc[k]).val])

\* fs::read_to_string
read_to_string(f) ==
    IF f.kind \in {"missing", "unreadable"} THEN None ELSE Some(f)

clamp_upper_only(v, lo, hi) == IF v > hi THEN hi ELSE v

clamp(v, lo, hi) == IF v < lo THEN lo ELSE IF v > hi THEN hi ELSE v

load_from_unclamped(f) ==
    IF read_to_string(f).some /\ f.kind = "toml" /\ from_str(f.doc).some
    THEN from_str(f.doc).val
    ELSE DefaultConfig

load_from(f) ==
    LET content == read_to_string(f)
        parsed == IF content.some /\ content.val.kind = "toml"
                  THEN from_str(content.val.doc) ELSE None
        config == IF parsed.some THEN parsed.val ELSE DefaultConfig
    IN  [config EXCEPT !.opacity = clamp(config.opacity, 25, 100),
                       !.font_size = clamp(config.font_size, 10, 60)]

\* A serialiser that writes the Rust variant names of the two enums.
to_toml_variant_names(config) ==
    [kind |-> "toml",
     doc |-> [k \in ConfigKeys |->
        CASE k \in {"position", "text_style"} -> StrV(config[k])
          [] k \in {"format_24h", "show_seconds", "start_with_windows"} ->
                BoolV(config[k])
          [] k \in {"font_size", "opacity"} -> IntV(config[k])
          [] k = "hotkey" -> StrV(config[k])
          [] k \in {"text_color", "outline_color"} -> ArrV(config[k])]]

\* toml::to_string_pretty: the full schema
to_toml(config) ==
    [kind |-> "toml",
     doc |-> [k \in ConfigKeys |->
        CASE k \in {"position", "text_style"} -> StrV(KebabCase(config[k]))
          [] k \in {"format_24h", "show_seconds", "start_with_windows"} ->
                BoolV(config[k])
          [] k \in {"font_size", "opacity"} -> IntV(config[k])
          [] k = "hotkey" -> StrV(config[k])
          [] k \in {"text_color", "outline_color"} -> ArrV(config[k])]]

ConfigWellFormed(c) ==
    /\ DOMAIN c = ConfigKeys
    /\ c.position \in Positions
    /\ c.format_24h \in BOOLEAN
    /\ c.show_seconds \in BOOLEAN
    /\ c.font_size \in Nat
    /\ c.opacity \in 0..U8Max
    /\ c.start_with_windows \in BOOLEAN
    /\ c.text_style \in TextStyles
    /\ Len(c.text_color) = 3
    /\ Len(c.outline_color) = 3
    /\ \A i \in 1..3 : c.text_color[i] \in 0..U8Max /\ c.outline_color[i] \in 0..U8Max
    /\ Len(c.hotkey) >= 0

(***************************************************************************)
(* config.rs: text_colorref and outline_colorref, on u32                   *)
(***************************************************************************)
\* a << n on a u32 holding a widened u8, n <= 16: the result is below 2^24
\* and the u32 never wraps.
Shl(a, n) == a * 2 ^ n

\* a | b on non-negative integers
RECURSIVE BitOr(_, _)
BitOr(a, b) ==
    IF a = 0 THEN b
    ELSE IF b = 0 THEN a
    ELSE (IF a % 2 = 1 \/ b % 2 = 1 THEN 1 ELSE 0) + 2 * BitOr(a \div 2, b \div 2)

\* A packing in the order of the field, first byte highest (0x00RRGGBB).
text_colorref_rgb_order(config) ==
    BitOr(BitOr(config.text_color[3], Shl(config.text_color[2], 8)),
          Shl(config.text_color[1], 16))

text_colorref(config) ==
    BitOr(BitOr(config.text_color[1], Shl(config.text_color[2], 8)),
          Shl(config.text_color[3], 16))

outline_colorref(config) ==
    BitOr(BitOr(config.outline_color[1], Shl(config.outline_color[2], 8)),
          Shl(config.outline_color[3], 16))

(***************************************************************************)
(* overlay.rs: guard_color_key                                             *)
(***************************************************************************)
COLOR_KEY == 65537

\* cr ^ (1 << bit) on a non-negative integer
FlipBit(cr, bit) ==
    LET p == 2 ^ bit IN IF (cr \div p) % 2 = 1 THEN cr - p ELSE cr + p

guard_color_key_unguarded(cr) == cr

guard_color_key(cr) == IF cr = COLOR_KEY THEN FlipBit(cr, 16) ELSE cr

(***************************************************************************)
(* overlay.rs: calc_window_rect                                            *)
(***************************************************************************)
\* (font_px as f32 * 0.6) as i32: the f32 product truncated towards zero,
\* which is floor(3 * font_px / 5) for every font_px the program can hold.
char_w_divide_first(font_px) == (font_px \div 5) * 3

char_w(font_px) == (font_px * 3) \div 5

text_chars_12h_short(config) ==
    CASE config.format_24h /\ config.show_seconds -> 8
      [] config.format_24h /\ ~config.show_seconds -> 5
      [] ~config.format_24h /\ config.show_seconds -> 11
      [] ~config.format_24h /\ ~config.show_seconds -> 5

text_chars(config) ==
    CASE config.format_24h /\ config.show_seconds -> 8
      [] config.format_24h /\ ~config.show_seconds -> 5
      [] ~config.format_24h /\ config.show_seconds -> 11
      [] ~config.format_24h /\ ~config.show_seconds -> 8

style_pad(config) == IF config.text_style \in {"Outline", "Shadow"} THEN 4 ELSE 0

win_w(config) == char_w(config.font_size) * text_chars(config) + 24 + style_pad(config)

\* A height without the vertical padding.
win_h_font_only(config) == config.font_size

win_h(config) == config.font_size + 16

margin == 10

anchor_bottom_margin_inverted(config, monitor) ==
    LET mon_x == monitor[1]
        mon_y == monitor[2]
        mon_w == monitor[3]
        mon_h == monitor[4]
    IN  CASE config.position = "TopRight" ->
                <<mon_x + mon_w - win_w(config) - margin, mon_y + margin>>
          [] config.position = "TopLeft" -> <<mon_x + margin, mon_y + margin>>
          [] config.position = "BottomRight" ->
                <<mon_x + mon_w - win_w(config) - margin,
                  mon_y + mon_h - win_h(config) + margin>>
          [] config.position = "BottomLeft" ->
                <<mon_x + margin, mon_y + mon_h - win_h(config) + margin>>

anchor(config, monitor) ==
    LET mon_x == monitor[1]
        mon_y == monitor[2]
        mon_w == monitor[3]
        mon_h == monitor[4]
    IN  CASE config.position = "TopRight" ->
                <<mon_x + mon_w - win_w(config) - margin, mon_y + margin>>
          [] config.position = "TopLeft" -> <<mon_x + margin, mon_y + margin>>
          [] config.position = "BottomRight" ->
                <<mon_x + mon_w - win_w(config) - margin,
                  mon_y + mon_h - win_h(config) - margin>>
          [] config.position = "BottomLeft" ->
                <<mon_x + margin, mon_y + mon_h - win_h(config) - margin>>

calc_window_rect(config, monitor) ==
    LET xy == anchor(config, monitor)
    IN  <<xy[1], xy[2], win_w(config), win_h(config)>>

(***************************************************************************)
(* Specification of load: a file is found on disk and loaded.              *)
(***************************************************************************)
AltF1 == <<"A", "l", "t", "+", "F", "1">>

RawSamples(key) ==
    CASE key = "position" -> {Absent, StrV("bottom-right"), StrV("sideways")}
      [] key = "format_24h" -> {Absent, BoolV(FALSE)}
      [] key = "show_seconds" -> {Absent, BoolV(TRUE)}
      [] key = "font_size" ->
            {Absent, IntV(-1), IntV(9), IntV(10), IntV(40), IntV(60), IntV(61),
             StrV("small"), StrV("medium"), StrV("large"), StrV("huge")}
      [] key = "opacity" ->
            {Absent, IntV(24), IntV(25), IntV(50), IntV(100), IntV(101),
             IntV(255), IntV(256)}
      [] key = "hotkey" -> {Absent, StrV(AltF1)}
      [] key = "start_with_windows" -> {Absent, BoolV(TRUE)}
      [] key = "text_style" -> {Absent, StrV("shadow"), StrV("glow")}
      [] key = "text_color" -> {Absent, ArrV(<<128, 64, 32>>)}
      [] key = "outline_color" -> {Absent, ArrV(<<10, 20, 30>>)}

\* Every combination of the sample values, key by key.
TomlFiles ==
    {[kind |-> "toml",
      doc |-> [position |-> p, format_24h |-> f, show_seconds |-> s,
               font_size |-> z, opacity |-> o, hotkey |-> h,
               start_with_windows |-> w, text_style |-> y,
               text_color |-> tc, outline_color |-> oc]] :
        p \in RawSamples("position"), f \in RawSamples("format_24h"),
        s \in RawSamples("show_seconds"), z \in RawSamples("font_size"),
        o \in RawSamples("opacity"), h \in RawSamples("hotkey"),
        w \in RawSamples("start_with_windows"), y \in RawSamples("text_style"),
        tc \in RawSamples("text_color"), oc \in RawSamples("outline_color")}

UnparsedFiles == {[kind |-> "missing"], [kind |-> "unreadable"], [kind |-> "garbage"]}

HkIdle ==
    /\ selected_mod = 0
    /\ selected_key = 0
    /\ hotkey_str = <<>>
    /\ hotkey_parsed = None
    /\ hk_pc = "idle"
    /\ hk_tokens = <<>>
    /\ hk_pair = <<0, 0>>

LdIdle ==
    /\ file = [kind |-> "missing"]
    /\ loaded = DefaultConfig
    /\ ld_pc = "idle"
    /\ rt_config = DefaultConfig

PRIMARY == <<0, 0, 1920, 1080>>

MainIdle ==
    /\ pc = "idle"
    /\ win = "None"
    /\ OVERLAY_VISIBLE = FALSE
    /\ HOTKEY_REREGISTER = FALSE
    /\ OVERLAY_CONFIG = None
    /\ app = None
    /\ posted = <<>>
    /\ timer_on = FALSE
    /\ timer_due = FALSE
    /\ paint_due = FALSE
    /\ menu_events = <<>>
    /\ registered = {}
    /\ win_rect = <<0, 0, 0, 0>>
    /\ win_alpha = 0
    /\ fg_monitor = PRIMARY
    /\ last_applied = None
    /\ applies = 0
    /\ painted = None
    /\ wnd_class = "none"
    /\ win_key = 0
    /\ attempted = None
    /\ hotkey_error = None

GeomIdle ==
    /\ g_config = DefaultConfig
    /\ g_monitor = PRIMARY
    /\ g_rect = <<0, 0, 0, 0>>
    /\ g_pc = "idle"

ColorIdle ==
    /\ c_in = 0
    /\ c_out = 0
    /\ c_pc = "idle"
    /\ c_rgb = <<0, 0, 0>>

CellIdle ==
    /\ m_data = DefaultConfig
    /\ m_lock = "free"
    /\ wr_pc = "idle"
    /\ wr_src = DefaultConfig
    /\ wr_n = 0
    /\ rd_pc = "idle"
    /\ rd_copy = DefaultConfig
    /\ rd_n = 0
    /\ written = {}

CallIdle ==
    /\ h_kind = "none"
    /\ rd_call = "none"
    /\ wr_call = "none"

PaintIdle ==
    /\ p_pc = "idle"
    /\ p_config = DefaultConfig
    /\ p_brush = "none"
    /\ p_font = "none"
    /\ p_selected = "old"
    /\ p_fill = None
    /\ p_textcolor = 0
    /\ p_draws = {}
    /\ p_seq = <<>>
    /\ p_paints = 0

TimeIdle ==
    /\ t_config = DefaultConfig
    /\ now = <<0, 0, 0>>
    /\ time_str = <<>>
    /\ t_pc = "input"

LdInit ==
    /\ file \in UnparsedFiles \cup TomlFiles
    /\ loaded = DefaultConfig
    /\ ld_pc = "stored"
    /\ rt_config = DefaultConfig
    /\ MainIdle /\ HkIdle /\ GeomIdle /\ ColorIdle /\ CellIdle /\ CallIdle /\ PaintIdle
    /\ TimeIdle

LdLoad ==
    /\ ld_pc = "stored"
    /\ loaded' = load_from(file)
    /\ ld_pc' = "loaded"
    /\ UNCHANGED <<file, rt_config, notLoad>>

LdNext == LdLoad

SpecLoad == LdInit /\ [][LdNext]_vars

\* C3: load is total.  Whatever the source, the result is a fully populated
\* Config with font_size in [10,60] and opacity in [25,100]; a missing,
\* unreadable or unparsable source gives exactly Config::default().
C3_LoadTotal ==
    ld_pc = "loaded" =>
        /\ ConfigWellFormed(loaded)
        /\ loaded.font_size >= 10 /\ loaded.font_size <= 60
        /\ loaded.opacity >= 25 /\ loaded.opacity <= 100
        /\ file.kind \in {"missing", "unreadable", "garbage"} => loaded = DefaultConfig

C3_Witness ==
    /\ ld_pc = "loaded"
    /\ file.kind = "garbage"
    /\ loaded = DefaultConfig

\* The value a decodable sample of a key other than font_size and opacity
\* stands for.
C4_Kept(doc, c) ==
    /\ doc.position = StrV("bottom-right") => c.position = "BottomRight"
    /\ doc.format_24h = BoolV(FALSE) => c.format_24h = FALSE
    /\ doc.show_seconds = BoolV(TRUE) => c.show_seconds = TRUE
    /\ doc.hotkey = StrV(AltF1) => c.hotkey = AltF1
    /\ doc.start_with_windows = BoolV(TRUE) => c.start_with_windows = TRUE
    /\ doc.text_style = StrV("shadow") => c.text_style = "Shadow"
    /\ doc.text_color = ArrV(<<128, 64, 32>>) => c.text_color = <<128, 64, 32>>
    /\ doc.outline_color = ArrV(<<10, 20, 30>>) => c.outline_color = <<10, 20, 30>>

C4_Clamped(raw, got, lo, hi) ==
    raw.t = "int" =>
        /\ raw.n < lo => got = lo
        /\ raw.n > hi => got = hi
        /\ (raw.n >= lo /\ raw.n <= hi) => got = raw.n

\* Every present key holds a value its field type can hold.
C4_Decodable(doc) ==
    /\ doc.position.t = "str" => doc.position.s \in {"top-right", "top-left", "bottom-right", "bottom-left"}
    /\ doc.text_style.t = "str" => doc.text_style.s \in {"none", "outline", "shadow"}
    /\ doc.opacity.t = "int" => doc.opacity.n \in 0..255
    /\ doc.font_size.t = "int" => doc.font_size.n >= 0
    /\ doc.font_size.t = "str" => doc.font_size.s \in {"small", "medium", "large"}

\* C4 as claimed: every stored opacity below 25 loads as 25 and above 100 as
\* 100, every stored font size below 10 loads as 10 and above 60 as 60,
\* in-range values load unchanged and the other fields of the file are kept.
C4_ClampOnLoad_Original ==
    (ld_pc = "loaded" /\ file.kind = "toml") =>
        /\ C4_Clamped(file.doc.opacity, loaded.opacity, 25, 100)
        /\ C4_Clamped(file.doc.font_size, loaded.font_size, 10, 60)
        /\ C4_Kept(file.doc, loaded)

\* C4 (amended): the same, for a file in which every present key holds a
\* value its field can hold (opacity an integer in 0..255, font size a
\* non-negative integer or a legacy name, known position and style names).
C4_ClampOnLoad ==
    (ld_pc = "loaded" /\ file.kind = "toml" /\ C4_Decodable(file.doc)) =>
        /\ C4_Clamped(file.doc.opacity, loaded.opacity, 25, 100)
        /\ C4_Clamped(file.doc.font_size, loaded.font_size, 10, 60)
        /\ C4_Kept(file.doc, loaded)

C4_Witness ==
    /\ ld_pc = "loaded"
    /\ file.kind = "toml"
    /\ C4_Decodable(file.doc)
    /\ file.doc.opacity = IntV(24) /\ loaded.opacity = 25
    /\ file.doc.font_size = IntV(61) /\ loaded.font_size = 60
    /\ file.doc.position = StrV("bottom-right") /\ loaded.position = "BottomRight"
    /\ file.doc.hotkey = StrV(AltF1) /\ loaded.hotkey = AltF1

C13_Legacy(doc, c) ==
    /\ doc.font_size = StrV("small") => c.font_size = 16
    /\ doc.font_size = StrV("medium") => c.font_size = 22
    /\ doc.font_size = StrV("large") => c.font_size = 30
    /\ C4_Clamped(doc.font_size, c.font_size, 10, 60)
    /\ \A k \in ConfigKeys : doc[k] = Absent => c[k] = DefaultConfig[k]

\* C13 as claimed: in every file, a stored font_size "small", "medium" or
\* "large" loads as 16, 22 or 30, a stored number loads as that number,
\* clamped, and every absent field is at its default.
C13_LegacyFontSize_Original ==
    (ld_pc = "loaded" /\ file.kind = "toml") => C13_Legacy(file.doc, loaded)

\* C13 (amended): the same, for a file in which every present key holds a
\* value its field can hold (so a stored font size number is not negative).
C13_LegacyFontSize ==
    (ld_pc = "loaded" /\ file.kind = "toml" /\ C4_Decodable(file.doc)) =>
        C13_Legacy(file.doc, loaded)

\* A file holding only font_size = "large" has loaded as the defaults with
\* font size 30.
C13_Witness ==
    /\ ld_pc = "loaded"
    /\ file.kind = "toml"
    /\ file.doc.font_size = StrV("large")
    /\ \A k \in ConfigKeys \ {"font_size"} : file.doc[k] = Absent
    /\ loaded = [DefaultConfig EXCEPT !.font_size = 30]

\* The keys of a file that hold a value their field cannot decode.
C37_BadKeys(doc) ==
    {k \in {"position", "text_style", "opacity", "font_size"} :
        CASE k = "position" ->
                doc[k].t = "str" /\ doc[k].s \notin
                    {"top-right", "top-left", "bottom-right", "bottom-left"}
          [] k = "text_style" ->
                doc[k].t = "str" /\ doc[k].s \notin {"none", "outline", "shadow"}
          [] k = "opacity" -> doc[k].t = "int" /\ doc[k].n \notin 0..255
          [] k = "font_size" ->
                \/ doc[k].t = "int" /\ doc[k].n < 0
                \/ doc[k].t = "str" /\ doc[k].s \notin {"small", "medium", "large"}}

\* C37: a file in which any one field holds a value that cannot be decoded
\* (an unknown legacy font-size string, a negative font size, an opacity
\* above 255, an unknown position or text-style name) loads as exactly
\* Config::default() in every field: the valid values of its other fields
\* are discarded.
C37_BadFieldDiscardsFile ==
    (ld_pc = "loaded" /\ file.kind = "toml" /\ C37_BadKeys(file.doc) # {}) =>
        \A k \in ConfigKeys : loaded[k] = DefaultConfig[k]

\* Only the font size of the file is bad ("huge"); its position, hotkey,
\* opacity and colours are valid and differ from the defaults, and the
\* loaded config has the defaults for all of them.
C37_Witness ==
    /\ ld_pc = "loaded"
    /\ file.kind = "toml"
    /\ C37_BadKeys(file.doc) = {"font_size"}
    /\ file.doc.font_size = StrV("huge")
    /\ file.doc.position = StrV("bottom-right") /\ loaded.position = DefaultConfig.position
    /\ file.doc.hotkey = StrV(AltF1) /\ loaded.hotkey = CtrlF12
    /\ file.doc.opacity = IntV(50) /\ loaded.opacity = 80
    /\ file.doc.text_color = ArrV(<<128, 64, 32>>) /\ loaded.text_color = default_text_color
    /\ DefaultConfig.position # "BottomRight"

\* An otherwise valid file: every present key is decodable and the two
\* numbers are inside their ranges.
C14_Valid(doc) ==
    /\ C4_Decodable(doc)
    /\ doc.opacity.t = "int" => doc.opacity.n \in 25..100
    /\ doc.font_size.t = "int" => doc.font_size.n \in 10..60

\* C14: in an otherwise valid file, whatever subset of the keys is missing,
\* every key given loads as the value given and every missing key as its
\* Config::default() value (text style Outline, white text, black outline,
\* font 22, opacity 80, hotkey Ctrl+F12, ...); the parse never falls back as
\* a whole.
C14_PerFieldDefaults ==
    (ld_pc = "loaded" /\ file.kind = "toml" /\ C14_Valid(file.doc)) =>
        /\ \A k \in ConfigKeys : file.doc[k] = Absent => loaded[k] = DefaultConfig[k]
        /\ C4_Kept(file.doc, loaded)
        /\ file.doc.opacity.t = "int" => loaded.opacity = file.doc.opacity.n
        /\ file.doc.font_size.t = "int" => loaded.font_size = file.doc.font_size.n
        /\ file.doc.font_size = StrV("small") => loaded.font_size = 16
        /\ file.doc.font_size = StrV("medium") => loaded.font_size = 22
        /\ file.doc.font_size = StrV("large") => loaded.font_size = 30
        /\ file.doc.text_style = Absent => loaded.text_style = "Outline"
        /\ file.doc.text_color = Absent => loaded.text_color = <<255, 255, 255>>
        /\ file.doc.outline_color = Absent => loaded.outline_color = <<0, 0, 0>>
        /\ file.doc.font_size = Absent => loaded.font_size = 22
        /\ file.doc.opacity = Absent => loaded.opacity = 80
        /\ file.doc.hotkey = Absent => loaded.hotkey = CtrlF12

\* A file giving position, font size and outline colour only has loaded
\* with those three and the defaults elsewhere.
C14_Witness ==
    /\ ld_pc = "loaded"
    /\ file.kind = "toml"
    /\ file.doc.position = StrV("bottom-right")
    /\ file.doc.font_size = IntV(40)
    /\ file.doc.outline_color = ArrV(<<10, 20, 30>>)
    /\ \A k \in ConfigKeys \ {"position", "font_size", "outline_color"} :
          file.doc[k] = Absent
    /\ loaded = [DefaultConfig EXCEPT !.position = "BottomRight", !.font_size = 40,
                                       !.outline_color = <<10, 20, 30>>]

(***************************************************************************)
(* Specification of save and load: a Config is saved to a path that holds  *)
(* no file yet and is loaded back from it.                                 *)
(***************************************************************************)
X1 == <<"x", "1">>

\* Configs that save_to may be called on; font sizes and opacities reach
\* beyond the slider ranges.
RtConfigs ==
    {[position |-> p, format_24h |-> f, show_seconds |-> s, font_size |-> z,
      opacity |-> o, hotkey |-> h, start_with_windows |-> w, text_style |-> y,
      text_color |-> tc, outline_color |-> oc] :
        p \in Positions, f \in BOOLEAN, s \in BOOLEAN, z \in {9, 10, 22, 60, 61},
        o \in {24, 25, 80, 100, 101}, h \in {CtrlF12, AltF1, X1}, w \in BOOLEAN,
        y \in TextStyles, tc \in {default_text_color, <<128, 64, 32>>},
        oc \in {default_outline_color, <<1, 0, 1>>}}

RtInit ==
    /\ rt_config \in RtConfigs
    /\ file = [kind |-> "missing"]
    /\ loaded = DefaultConfig
    /\ ld_pc = "config"
    /\ MainIdle /\ HkIdle /\ GeomIdle /\ ColorIdle /\ CellIdle /\ CallIdle /\ PaintIdle
    /\ TimeIdle

\* Config::save_to: Ok with the file written, or Err with the file as it was
RtSave ==
    /\ ld_pc = "config"
    /\ \E ok \in BOOLEAN :
          /\ file' = IF ok THEN to_toml(rt_config) ELSE file
          /\ ld_pc' = IF ok THEN "saved" ELSE "save_failed"
    /\ UNCHANGED <<loaded, rt_config, notLoad>>

RtLoad ==
    /\ ld_pc \in {"saved", "save_failed"}
    /\ loaded' = load_from(file)
    /\ ld_pc' = IF ld_pc = "saved" THEN "reloaded" ELSE "reloaded_unsaved"
    /\ UNCHANGED <<file, rt_config, notLoad>>

RtNext == RtSave \/ RtLoad

SpecRoundTrip == RtInit /\ [][RtNext]_vars

\* C12: a Config with font_size in [10,60] and opacity in [25,100] that
\* save_to has written loads back from the same path equal in every field.
C12_SaveLoadRoundTrip ==
    (/\ ld_pc = "reloaded"
     /\ rt_config.font_size \in 10..60
     /\ rt_config.opacity \in 25..100) =>
        /\ loaded = rt_config
        /\ \A k \in ConfigKeys : loaded[k] = rt_config[k]

\* A config away from the defaults in every field has been saved and loaded.
C12_Witness ==
    /\ ld_pc = "reloaded"
    /\ loaded = rt_config
    /\ \A k \in ConfigKeys : rt_config[k] # DefaultConfig[k]
    /\ rt_config.position = "BottomLeft" /\ rt_config.text_style = "Shadow"
    /\ rt_config.font_size = 60 /\ rt_config.opacity = 25

(***************************************************************************)
(* Specification of the geometry: calc_window_rect applied to every valid  *)
(* display configuration on a set of monitor rectangles.                   *)
(***************************************************************************)
OFFSET == <<1920, 0, 2560, 1440>>

\* a monitor left of and above the primary one (negative coordinates)
LEFT_ABOVE == <<-1280, -1024, 1280, 1024>>

\* the smallest monitor that holds the largest window and its margin
SNUG == <<0, 0, 434, 86>>

\* a display smaller than the largest window
QVGA == <<0, 0, 320, 240>>

Monitors == {PRIMARY, OFFSET, LEFT_ABOVE, SNUG, QVGA}

FontSizes == 10..60

GeomConfigs ==
    {[DefaultConfig EXCEPT !.position = p, !.format_24h = f, !.show_seconds = s,
                           !.font_size = z, !.text_style = y] :
        p \in Positions, f \in BOOLEAN, s \in BOOLEAN, z \in FontSizes,
        y \in TextStyles}

GeomInit ==
    /\ g_config \in GeomConfigs
    /\ g_monitor \in Monitors
    /\ g_rect = <<0, 0, 0, 0>>
    /\ g_pc = "input"
    /\ MainIdle /\ HkIdle /\ LdIdle /\ ColorIdle /\ CellIdle /\ CallIdle /\ PaintIdle
    /\ TimeIdle

GeomCalc ==
    /\ g_pc = "input"
    /\ g_rect' = calc_window_rect(g_config, g_monitor)
    /\ g_pc' = "done"
    /\ UNCHANGED <<g_config, g_monitor, notGeom>>

GeomNext == GeomCalc

SpecGeom == GeomInit /\ [][GeomNext]_vars

\* C5: the window is exactly 10 px from the two monitor edges of its anchor
\* corner, in absolute screen coordinates, and its size depends neither on
\* the position nor on the monitor.
C5_AnchorAtMargin ==
    g_pc = "done" =>
        LET x == g_rect[1]
            y == g_rect[2]
            w == g_rect[3]
            h == g_rect[4]
            monX == g_monitor[1]
            monY == g_monitor[2]
            monW == g_monitor[3]
            monH == g_monitor[4]
        IN  /\ g_config.position = "TopRight" =>
                  x = monX + monW - w - 10 /\ y = monY + 10
            /\ g_config.position = "TopLeft" =>
                  x = monX + 10 /\ y = monY + 10
            /\ g_config.position = "BottomRight" =>
                  x = monX + monW - w - 10 /\ y = monY + monH - h - 10
            /\ g_config.position = "BottomLeft" =>
                  x = monX + 10 /\ y = monY + monH - h - 10
            /\ \A p \in Positions, m \in Monitors :
                  LET r == calc_window_rect([g_config EXCEPT !.position = p], m)
                  IN  r[3] = w /\ r[4] = h

C5_Witness ==
    /\ g_pc = "done"
    /\ g_config.position = "BottomRight"
    /\ g_config.font_size = 22
    /\ g_monitor = OFFSET
    /\ g_rect[1] = 1920 + 2560 - g_rect[3] - 10
    /\ g_rect[2] = 1440 - g_rect[4] - 10

C6_Inside ==
    LET x == g_rect[1]
        y == g_rect[2]
        w == g_rect[3]
        h == g_rect[4]
    IN  /\ x >= g_monitor[1]
        /\ y >= g_monitor[2]
        /\ x + w <= g_monitor[1] + g_monitor[3]
        /\ y + h <= g_monitor[2] + g_monitor[4]

\* C6 as claimed: for every position, valid config and monitor rect, the
\* returned rectangle lies inside the monitor.
C6_InsideMonitor_Original == g_pc = "done" => C6_Inside

\* C6 (amended): the returned rectangle lies inside the monitor whenever the
\* monitor is at least 10 px wider and 10 px taller than the window.
C6_InsideMonitor ==
    (/\ g_pc = "done"
     /\ g_monitor[3] >= g_rect[3] + 10
     /\ g_monitor[4] >= g_rect[4] + 10) => C6_Inside

C6_Witness ==
    /\ g_pc = "done"
    /\ g_monitor = SNUG
    /\ g_config.font_size = 60
    /\ ~g_config.format_24h /\ g_config.show_seconds
    /\ g_config.text_style = "Outline"
    /\ g_config.position = "BottomRight"
    /\ g_rect = <<0, 0, 424, 76>>

C7_Count(f24, secs) ==
    IF f24 THEN (IF secs THEN 8 ELSE 5) ELSE (IF secs THEN 11 ELSE 8)

\* C7: the width is computed from 8, 5, 11 and 8 characters for 24h+seconds,
\* 24h, 12h+seconds and 12h, and of two configs that differ only in
\* (format_24h, show_seconds) the one with more characters is strictly wider.
C7_CharCount ==
    g_pc = "done" =>
        LET n == C7_Count(g_config.format_24h, g_config.show_seconds)
            pad == IF g_config.text_style = "None" THEN 0 ELSE 4
        IN  /\ g_rect[3] - 24 - pad = n * ((3 * g_config.font_size) \div 5)
            /\ \A f \in BOOLEAN, s \in BOOLEAN :
                  LET other == calc_window_rect(
                          [g_config EXCEPT !.format_24h = f, !.show_seconds = s],
                          g_monitor)
                  IN  /\ C7_Count(f, s) > n => other[3] > g_rect[3]
                      /\ C7_Count(f, s) = n => other[3] = g_rect[3]

C7_Witness ==
    /\ g_pc = "done"
    /\ ~g_config.format_24h /\ ~g_config.show_seconds
    /\ g_config.font_size = 10
    /\ g_config.text_style = "None"
    /\ g_rect[3] = 72

\* C8 as claimed: of two configs that differ only in font_size, the larger
\* font has a strictly larger width and a strictly larger height.
C8_FontMonotone_Original ==
    g_pc = "done" =>
        \A f2 \in FontSizes :
            f2 > g_config.font_size =>
                LET r2 == calc_window_rect([g_config EXCEPT !.font_size = f2], g_monitor)
                IN  r2[3] > g_rect[3] /\ r2[4] > g_rect[4]

\* C8 (amended): the larger font has a strictly larger height and a width
\* that is never smaller, and strictly larger when the sizes differ by 2 or
\* more.
C8_FontMonotone ==
    g_pc = "done" =>
        \A f2 \in FontSizes :
            f2 > g_config.font_size =>
                LET r2 == calc_window_rect([g_config EXCEPT !.font_size = f2], g_monitor)
                IN  /\ r2[4] > g_rect[4]
                    /\ r2[3] >= g_rect[3]
                    /\ f2 >= g_config.font_size + 2 => r2[3] > g_rect[3]

C8_Witness ==
    /\ g_pc = "done"
    /\ g_config.font_size = 10
    /\ g_rect[3] = calc_window_rect([g_config EXCEPT !.font_size = 11], g_monitor)[3]
    /\ g_rect[4] < calc_window_rect([g_config EXCEPT !.font_size = 11], g_monitor)[4]
    /\ g_rect[3] < calc_window_rect([g_config EXCEPT !.font_size = 12], g_monitor)[3]

\* C32 as claimed: the height is font_size + 16 and the width is
\* charWidth * charCount + 24, plus 4 when the style is not None, with
\* charWidth exactly 0.6 * font_size (so 5 * text width = 3 * font * count).
C32_WindowSize_Original ==
    g_pc = "done" =>
        LET n == C7_Count(g_config.format_24h, g_config.show_seconds)
            pad == IF g_config.text_style = "None" THEN 0 ELSE 4
        IN  /\ g_rect[4] = g_config.font_size + 16
            /\ 5 * (g_rect[3] - 24 - pad) = 3 * g_config.font_size * n

\* C32 (amended): the height is font_size + 16 and the width is
\* charWidth * charCount + 24, plus 4 when the style is not None, with
\* charWidth the integer part of 0.6 * font_size.
C32_WindowSize ==
    g_pc = "done" =>
        LET n == C7_Count(g_config.format_24h, g_config.show_seconds)
            pad == IF g_config.text_style = "None" THEN 0 ELSE 4
            cw == CHOOSE c \in 0..g_config.font_size :
                      5 * c <= 3 * g_config.font_size /\ 3 * g_config.font_size < 5 * (c + 1)
        IN  /\ g_rect[4] = g_config.font_size + 16
            /\ g_rect[3] = cw * n + 24 + pad

\* An 11 px, 24-hour clock without seconds in the Shadow style: 6 * 5 + 28
\* wide where the exact product would give 33 + 28.
C32_Witness ==
    /\ g_pc = "done"
    /\ g_config.font_size = 11
    /\ g_config.format_24h /\ ~g_config.show_seconds
    /\ g_config.text_style = "Shadow"
    /\ g_rect[3] = 58
    /\ g_rect[4] = 27

(***************************************************************************)
(* Specification of the colour-key guard.                                  *)
(***************************************************************************)
ChannelSamples == {0, 1, 2, 128, 255}

\* COLORREFs 0x00BBGGRR of the sample channels, and two values with a
\* non-zero top byte
ColorSamples ==
    {r + g * 256 + b * 65536 : r \in ChannelSamples, g \in ChannelSamples,
                               b \in ChannelSamples}
        \cup {16777216 + COLOR_KEY, 16777216}

ColorInit ==
    /\ c_in \in ColorSamples
    /\ c_out = 0
    /\ c_pc = "input"
    /\ c_rgb = <<0, 0, 0>>
    /\ MainIdle /\ HkIdle /\ LdIdle /\ GeomIdle /\ CellIdle /\ CallIdle /\ PaintIdle
    /\ TimeIdle

ColorGuard ==
    /\ c_pc = "input"
    /\ c_out' = guard_color_key(c_in)
    /\ c_pc' = "done"
    /\ UNCHANGED <<c_in, c_rgb, notColor>>

ColorNext == ColorGuard

SpecColor == ColorInit /\ [][ColorNext]_vars

(***************************************************************************)
(* Specification of the colour packing: a colour field of the Config is    *)
(* packed as text colour and as outline colour.                            *)
(***************************************************************************)
Bytes == ChannelSamples \cup {16, 127, 254}

PkInit ==
    /\ c_rgb \in {<<r, g, b>> : r \in Bytes, g \in Bytes, b \in Bytes}
    /\ c_in = 0
    /\ c_out = 0
    /\ c_pc = "input"
    /\ MainIdle /\ HkIdle /\ LdIdle /\ GeomIdle /\ CellIdle /\ CallIdle /\ PaintIdle
    /\ TimeIdle

PkText ==
    /\ c_pc = "input"
    /\ c_out' = text_colorref([text_color |-> c_rgb])
    /\ c_pc' = "text"
    /\ UNCHANGED <<c_in, c_rgb, notColor>>

PkOutline ==
    /\ c_pc = "input"
    /\ c_out' = outline_colorref([outline_color |-> c_rgb])
    /\ c_pc' = "outline"
    /\ UNCHANGED <<c_in, c_rgb, notColor>>

PkNext == PkText \/ PkOutline

SpecPack == PkInit /\ [][PkNext]_vars

\* C16: text_colorref and outline_colorref pack <<R, G, B>> as
\* R | G<<8 | B<<16: the low byte is R, the next G, the third B and the top
\* byte 0, so the triple can be read back from the value (distinct triples
\* give distinct values) and R and B are not swapped.
C16_ColorrefPacking ==
    c_pc \in {"text", "outline"} =>
        /\ c_out = c_rgb[1] + c_rgb[2] * 256 + c_rgb[3] * 65536
        /\ c_out % 256 = c_rgb[1]
        /\ (c_out \div 256) % 256 = c_rgb[2]
        /\ (c_out \div 65536) % 256 = c_rgb[3]
        /\ c_out \div 16777216 = 0

\* The text colour <<1, 2, 128>> has been packed as 0x00800201.
C16_Witness ==
    /\ c_pc = "text"
    /\ c_rgb = <<1, 2, 128>>
    /\ c_out = 8389121

\* C9: guard_color_key never returns the key colour 0x00010001, and returns
\* every other input unchanged.
C9_GuardColorKey ==
    c_pc = "done" =>
        /\ c_out # 65537
        /\ c_in # 65537 => c_out = c_in

C9_Witness ==
    /\ c_pc = "done"
    /\ c_in = 65537
    /\ c_out = 1

(***************************************************************************)
(* Specification of the hotkey codec: a pair is selected in the settings   *)
(* form, formatted, possibly re-cased (the string lives in a hand-editable *)
(* file), and parsed.                                                      *)
(***************************************************************************)
HkInit ==
    /\ selected_mod \in 0..(Len(MODIFIER_OPTIONS) - 1)
    /\ selected_key \in 0..(Len(KEY_OPTIONS) - 1)
    /\ hotkey_str = <<>>
    /\ hotkey_parsed = None
    /\ hk_pc = "select"
    /\ hk_tokens = <<>>
    /\ hk_pair = <<0, 0>>
    /\ MainIdle /\ LdIdle /\ GeomIdle /\ ColorIdle /\ CellIdle /\ CallIdle /\ PaintIdle
    /\ TimeIdle

HkBuild ==
    /\ hk_pc = "select"
    /\ hotkey_str' = build_hotkey_string(selected_mod, selected_key)
    /\ hk_pc' = "built"
    /\ UNCHANGED <<selected_mod, selected_key, hotkey_parsed, hk_tokens, hk_pair,
                   notHotkey>>

HkRecase ==
    /\ hk_pc = "built"
    /\ \E i \in 1..Len(hotkey_str) :
          /\ IsLetter(hotkey_str[i])
          /\ hotkey_str' = [hotkey_str EXCEPT ![i] = SwapCase(@)]
    /\ UNCHANGED <<selected_mod, selected_key, hotkey_parsed, hk_pc, hk_tokens,
                   hk_pair, notHotkey>>

HkParse ==
    /\ hk_pc = "built"
    /\ hotkey_parsed' = parse_hotkey(hotkey_str)
    /\ hk_pc' = "parsed"
    /\ UNCHANGED <<selected_mod, selected_key, hotkey_str, hk_tokens, hk_pair,
                   notHotkey>>

HkNext == HkBuild \/ HkRecase \/ HkParse

SpecHotkey == HkInit /\ [][HkNext]_vars

\* C10: formatting a table pair as "Modifier+Key" and parsing it, in any
\* upper/lower-case variant, yields exactly that pair's (mask, key code).
C10_HotkeyRoundTrip ==
    hk_pc = "parsed" =>
        hotkey_parsed = Some(<<MODIFIER_OPTIONS[selected_mod + 1].code,
                               KEY_OPTIONS[selected_key + 1].code>>)

C10_Witness ==
    /\ hk_pc = "parsed"
    /\ selected_mod = 4
    /\ selected_key = 4
    /\ hotkey_str # build_hotkey_string(selected_mod, selected_key)
    /\ hotkey_parsed = Some(<<MOD_CONTROL + MOD_SHIFT, VK_F1 + 4>>)

(***************************************************************************)
(* Specification of parse_hotkey on hand-written strings: the hotkey of a  *)
(* config file is typed as tokens joined by '+', and parsed.               *)
(***************************************************************************)
MaxTokens == 3

\* What a user may type between the '+' signs.
TypedTokens ==
    { <<"C", "t", "r", "l">>, <<"A", "l", "t">>, <<"S", "h", "i", "f", "t">>,
      <<" ", "c", "T", "R", "L", " ">>, <<"F", "1">>, <<"f", "1", "2", " ">>,
      <<"F", "1", "3">>, <<"F">>, <<>> }

TypedHotkeys == UNION {[1..n -> TypedTokens] : n \in 1..MaxTokens}

PsInit ==
    /\ hk_tokens \in TypedHotkeys
    /\ hk_pair = <<0, 0>>
    /\ hotkey_str = JoinPlus(hk_tokens)
    /\ selected_mod = 0
    /\ selected_key = 0
    /\ hotkey_parsed = None
    /\ hk_pc = "built"
    /\ MainIdle /\ LdIdle /\ GeomIdle /\ ColorIdle /\ CellIdle /\ CallIdle /\ PaintIdle
    /\ TimeIdle

\* Config::parsed_hotkey of a config holding the typed string
PsResolve ==
    /\ hk_pc = "parsed"
    /\ hk_pair' = parsed_hotkey([hotkey |-> hotkey_str])
    /\ hk_pc' = "resolved"
    /\ UNCHANGED <<selected_mod, selected_key, hotkey_str, hotkey_parsed, hk_tokens,
                   notHotkey>>

PsNext == HkParse \/ PsResolve

SpecParse == PsInit /\ [][PsNext]_vars

\* A typed token read as the code reads it: trimmed, ASCII case folded.
C11_Folded(token) == [i \in 1..Len(Trim(token)) |-> ToLower(Trim(token)[i])]

C11_KeyNames == {<<"f">> \o d : d \in {<<"1">>, <<"2">>, <<"3">>, <<"4">>, <<"5">>,
                                      <<"6">>, <<"7">>, <<"8">>, <<"9">>,
                                      <<"1", "0">>, <<"1", "1">>, <<"1", "2">>}}

C11_Ctrl == <<"c", "t", "r", "l">>

C11_Alt == <<"a", "l", "t">>

C11_Shift == <<"s", "h", "i", "f", "t">>

\* The modifier table as lists of tokens, with the mask of each.
C11_ModifierTokens ==
    { <<<<C11_Ctrl>>, MOD_CONTROL>>, <<<<C11_Alt>>, MOD_ALT>>,
      <<<<C11_Shift>>, MOD_SHIFT>>,
      <<<<C11_Ctrl, C11_Alt>>, MOD_CONTROL + MOD_ALT>>,
      <<<<C11_Ctrl, C11_Shift>>, MOD_CONTROL + MOD_SHIFT>>,
      <<<<C11_Alt, C11_Shift>>, MOD_ALT + MOD_SHIFT>> }

C11_Accepted(tokens) ==
    /\ Len(tokens) >= 2
    /\ C11_Folded(tokens[Len(tokens)]) \in C11_KeyNames
    /\ \E e \in C11_ModifierTokens :
          e[1] = [i \in 1..(Len(tokens) - 1) |-> C11_Folded(tokens[i])]

\* C11: parse_hotkey returns a result if and only if the string has at least
\* two '+'-separated tokens, the last one (trimmed, any case) is a key F1..F12
\* and the tokens before it are, in order, an entry of the modifier table;
\* every other string (one token, unknown key, unknown, reordered or repeated
\* modifier) yields no result.
C11_ParseIff ==
    hk_pc = "parsed" =>
        /\ hotkey_parsed.some <=> C11_Accepted(hk_tokens)
        /\ hotkey_parsed.some =>
              \E e \in C11_ModifierTokens :
                 /\ e[1] = [i \in 1..(Len(hk_tokens) - 1) |-> C11_Folded(hk_tokens[i])]
                 /\ hotkey_parsed.val[1] = e[2]
                 /\ hotkey_parsed.val[2] \in VK_F1..VK_F12

\* " cTRL +Shift+f12 " has been parsed to (Ctrl|Shift, F12).
C11_Witness ==
    /\ hk_pc = "parsed"
    /\ hk_tokens = << <<" ", "c", "T", "R", "L", " ">>, <<"S", "h", "i", "f", "t">>,
                      <<"f", "1", "2", " ">> >>
    /\ hotkey_parsed = Some(<<MOD_CONTROL + MOD_SHIFT, VK_F12>>)

\* "Shift+Ctrl+F1" (a table pair in the other order) has been rejected.
C11_WitnessReordered ==
    /\ hk_pc = "parsed"
    /\ hk_tokens = << <<"S", "h", "i", "f", "t">>, <<"C", "t", "r", "l">>, <<"F", "1">> >>
    /\ hotkey_parsed = None

C15_ModifierMasks ==
    {MOD_CONTROL, MOD_ALT, MOD_SHIFT, MOD_CONTROL + MOD_ALT, MOD_CONTROL + MOD_SHIFT,
     MOD_ALT + MOD_SHIFT}

\* C15: for every string parse_hotkey rejects, Config::parsed_hotkey returns
\* (Ctrl, F12); for every string it accepts, the parsed pair; either way the
\* pair handed to registration is a modifier mask and a key code of the tables.
C15_HotkeyFallback ==
    hk_pc = "resolved" =>
        /\ ~hotkey_parsed.some => hk_pair = <<MOD_CONTROL, VK_F12>>
        /\ hotkey_parsed.some => hk_pair = hotkey_parsed.val
        /\ hk_pair[1] \in C15_ModifierMasks
        /\ hk_pair[2] \in VK_F1..VK_F12

\* "Shift+F13" was rejected and resolved to (Ctrl, F12).
C15_Witness ==
    /\ hk_pc = "resolved"
    /\ hk_tokens = << <<"S", "h", "i", "f", "t">>, <<"F", "1", "3">> >>
    /\ hotkey_parsed = None
    /\ hk_pair = <<MOD_CONTROL, VK_F12>>

(***************************************************************************)
(* Specification of the shared cell: OVERLAY_CONFIG is an Arc<Mutex<Config>>*)
(* that update_config stores into and get_config clones out of.  A Config  *)
(* is stored and cloned field by field; a writer and a reader run in any   *)
(* interleaving.                                                           *)
(***************************************************************************)
\* The fields of Config in declaration order
KeyOrder ==
    <<"position", "format_24h", "show_seconds", "font_size", "opacity", "hotkey",
      "start_with_windows", "text_style", "text_color", "outline_color">>

\* Configs handed to the cell: the defaults and two that differ from them
\* and from each other in several fields.
CellConfigs ==
    {DefaultConfig,
     [DefaultConfig EXCEPT !.position = "BottomLeft", !.font_size = 60,
                           !.opacity = 25, !.hotkey = AltF1],
     [DefaultConfig EXCEPT !.position = "TopLeft", !.font_size = 10,
                           !.text_style = "Shadow", !.text_color = <<1, 0, 1>>]}

\* A lock that is granted whoever holds it.
lock_granted_always(holder) == TRUE

\* Mutex::lock: granted when nobody holds the Mutex
lock(holder) == holder = "free"

\* Overlay::new: get_or_init stores the startup config
CellInit ==
    /\ m_data \in CellConfigs
    /\ written = {m_data}
    /\ m_lock = "free"
    /\ wr_pc = "idle" /\ wr_src = DefaultConfig /\ wr_n = 0
    /\ rd_pc = "idle" /\ rd_copy = DefaultConfig /\ rd_n = 0
    /\ MainIdle /\ HkIdle /\ LdIdle /\ GeomIdle /\ ColorIdle /\ CallIdle /\ PaintIdle
    /\ TimeIdle

\* update_config(config): config.clone() is evaluated first
WrClone ==
    /\ wr_pc = "idle"
    /\ \E config \in CellConfigs : wr_src' = config
    /\ wr_pc' = "cloned"
    /\ UNCHANGED <<m_data, m_lock, wr_n, rd_pc, rd_copy, rd_n, written, notCell>>

\* arc.lock().unwrap()
WrLock ==
    /\ wr_pc = "cloned"
    /\ lock(m_lock)
    /\ m_lock' = "writer"
    /\ wr_pc' = "writing"
    /\ wr_n' = 0
    /\ written' = written \cup {wr_src}
    /\ UNCHANGED <<m_data, wr_src, rd_pc, rd_copy, rd_n, notCell>>

\* *guard = clone: one field is stored
WrField ==
    /\ wr_pc = "writing"
    /\ wr_n < Len(KeyOrder)
    /\ m_data' = [m_data EXCEPT ![KeyOrder[wr_n + 1]] = wr_src[KeyOrder[wr_n + 1]]]
    /\ wr_n' = wr_n + 1
    /\ UNCHANGED <<m_lock, wr_pc, wr_src, rd_pc, rd_copy, rd_n, written, notCell>>

\* the guard is dropped at the end of the statement
WrUnlock ==
    /\ wr_pc = "writing"
    /\ wr_n = Len(KeyOrder)
    /\ m_lock' = "free"
    /\ wr_pc' = "idle"
    /\ UNCHANGED <<m_data, wr_src, wr_n, rd_pc, rd_copy, rd_n, written, notCell>>

\* get_config: c.lock().unwrap()
RdLock ==
    /\ rd_pc \in {"idle", "done"}
    /\ lock(m_lock)
    /\ m_lock' = "reader"
    /\ rd_pc' = "copying"
    /\ rd_n' = 0
    /\ UNCHANGED <<m_data, wr_pc, wr_src, wr_n, rd_copy, written, notCell>>

\* .clone(): one field is cloned
RdField ==
    /\ rd_pc = "copying"
    /\ rd_n < Len(KeyOrder)
    /\ rd_copy' = [rd_copy EXCEPT ![KeyOrder[rd_n + 1]] = m_data[KeyOrder[rd_n + 1]]]
    /\ rd_n' = rd_n + 1
    /\ UNCHANGED <<m_data, m_lock, wr_pc, wr_src, wr_n, rd_pc, written, notCell>>

\* A guard that lives until the callback returns.
RdUnlock_guard_kept ==
    /\ rd_pc = "copying"
    /\ rd_n = Len(KeyOrder)
    /\ rd_pc' = "done"
    /\ UNCHANGED <<m_data, m_lock, wr_pc, wr_src, wr_n, rd_copy, rd_n, written, notCell>>

\* the guard is dropped; get_config returns the clone
RdUnlock ==
    /\ rd_pc = "copying"
    /\ rd_n = Len(KeyOrder)
    /\ m_lock' = "free"
    /\ rd_pc' = "done"
    /\ UNCHANGED <<m_data, wr_pc, wr_src, wr_n, rd_copy, rd_n, written, notCell>>

CellNext == WrClone \/ WrLock \/ WrField \/ WrUnlock \/ RdLock \/ RdField \/ RdUnlock

SpecCell == CellInit /\ [][CellNext]_vars

\* C19: every config a reader of the cell obtains is one whole Config that
\* was given to the cell, at creation or by an update_config call; in no
\* interleaving of a writer and a reader does the reader hold fields of two
\* different writes.
C19_WholeReads ==
    /\ rd_pc = "done" => rd_copy \in written
    /\ m_lock # "writer" => m_data \in written

\* A reader has obtained a config that an update_config stored, and the
\* writer is in the middle of storing another one.
C19_Witness ==
    /\ rd_pc = "done"
    /\ rd_copy \in written /\ rd_copy.font_size = 60
    /\ wr_pc = "writing" /\ wr_n = 4 /\ wr_src.font_size = 10
    /\ Cardinality(written) = 3

(***************************************************************************)
(* Specification of the callers of the cell.  A window callback (WM_PAINT, *)
(* WM_TIMER or Overlay::show) calls get_config and then the OS with what   *)
(* it got; Apply writes the file, then calls update_config.  The two run   *)
(* in any interleaving; get_config and update_config are the reader and    *)
(* the writer of the cell above.                                           *)
(***************************************************************************)
LkInit == CellInit

\* wnd_proc or show is entered.  WM_PAINT calls BeginPaint first (line 133);
\* WM_TIMER and show start with get_config (lines 205, 431).
CbEnter ==
    /\ rd_call = "none"
    /\ \E kind \in {"WM_PAINT", "WM_TIMER", "show"} :
          /\ h_kind' = kind
          /\ rd_call' = IF kind = "WM_PAINT" THEN "BeginPaint" ELSE "get_config"
    /\ rd_pc' = "idle"
    /\ UNCHANGED <<m_data, m_lock, wr_pc, wr_src, wr_n, rd_copy, rd_n, written,
                   wr_call, notCall>>

\* BeginPaint returns.
CbBeginPaint ==
    /\ rd_call = "BeginPaint"
    /\ rd_call' = "get_config"
    /\ UNCHANGED <<h_kind, wr_call, cellVars, notCall>>

\* get_config: the lock is taken, the Config cloned, the guard dropped.
CbLock == rd_call = "get_config" /\ rd_pc = "idle" /\ RdLock

CbField == rd_call = "get_config" /\ RdField

CbUnlock == rd_call = "get_config" /\ RdUnlock

\* get_config has returned: the GDI calls of lines 138-201, or
\* SetLayeredWindowAttributes, SetWindowPos and InvalidateRect / ShowWindow.
CbOsCalls ==
    /\ rd_call = "get_config" /\ rd_pc = "done"
    /\ rd_call' = "os"
    /\ UNCHANGED <<h_kind, wr_call, cellVars, notCall>>

\* The callback returns.
CbReturn ==
    /\ rd_call = "os"
    /\ rd_call' = "none"
    /\ h_kind' = "none"
    /\ UNCHANGED <<wr_call, cellVars, notCall>>

\* Apply, settings.rs 209: config.save() writes the file.
ApSave ==
    /\ wr_call = "none" /\ wr_pc = "idle"
    /\ wr_call' = "save"
    /\ wr_n' = 0
    /\ UNCHANGED <<m_data, m_lock, wr_pc, wr_src, rd_pc, rd_copy, rd_n, written,
                   h_kind, rd_call, notCall>>

\* save has returned; line 212 calls update_config.
ApSaved ==
    /\ wr_call = "save"
    /\ wr_call' = "update_config"
    /\ UNCHANGED <<h_kind, rd_call, cellVars, notCall>>

ApClone == wr_call = "update_config" /\ wr_n = 0 /\ WrClone

ApLock == wr_call = "update_config" /\ WrLock

ApField == wr_call = "update_config" /\ WrField

ApUnlock == wr_call = "update_config" /\ WrUnlock

\* update_config has returned; line 214 stores the re-register flag.
ApDone ==
    /\ wr_call = "update_config" /\ wr_pc = "idle" /\ wr_n = Len(KeyOrder)
    /\ wr_call' = "none"
    /\ UNCHANGED <<h_kind, rd_call, cellVars, notCall>>

LkNext ==
    \/ CbEnter
    \/ CbBeginPaint
    \/ CbLock
    \/ CbField
    \/ CbUnlock
    \/ CbOsCalls
    \/ CbReturn
    \/ ApSave
    \/ ApSaved
    \/ ApClone
    \/ ApLock
    \/ ApField
    \/ ApUnlock
    \/ ApDone

SpecLock == LkInit /\ [][LkNext]_vars

\* The lock is held by a caller that is inside its copy and nowhere else.
C28_HeldForCopyOnly ==
    /\ m_lock = "reader" => rd_call = "get_config" /\ rd_pc = "copying"
    /\ m_lock = "writer" => wr_call = "update_config" /\ wr_pc = "writing"
    /\ rd_call \in {"BeginPaint", "os"} => m_lock # "reader"
    /\ wr_call = "save" => m_lock # "writer"

\* C28: the config mutex is held only for a whole-value copy-out
\* (get_config) or copy-in (update_config): in no reachable state is the
\* lock held while an OS call, a paint, a file read/write or another
\* blocking operation is in progress, and no handler acquires the lock while
\* already holding it, so no interleaving of the settings flow and the
\* window callbacks deadlocks (some step can always be taken).
C28_LockDiscipline ==
    /\ [](C28_HeldForCopyOnly)
    /\ [][rd_pc' = "copying" /\ rd_pc # "copying" => m_lock = "free"]_vars
    /\ [][wr_pc' = "writing" /\ wr_pc # "writing" => m_lock = "free"]_vars
    /\ [](ENABLED LkNext)

\* WM_PAINT is inside its GDI calls with the config it cloned, while Apply
\* holds the lock in the middle of storing another config.
C28_Witness ==
    /\ h_kind = "WM_PAINT" /\ rd_call = "os"
    /\ m_lock = "writer" /\ wr_n = 5
    /\ rd_copy # wr_src

(***************************************************************************)
(* Specification of one WM_PAINT (overlay.rs 131-203), statement by        *)
(* statement, on the GDI objects it creates and the colours it draws with. *)
(* The GDI calls succeed; DeleteObject does not delete an object that is   *)
(* selected into a device context.                                         *)
(***************************************************************************)
MaxPaints == 2

\* The style and colour fields paint reads, with the key colour (1, 0, 1)
\* and the colour the guard turns it into among the samples.
PaintConfigs ==
    {[DefaultConfig EXCEPT !.text_style = y, !.text_color = t, !.outline_color = o] :
        y \in TextStyles,
        t \in {<<255, 255, 255>>, <<1, 0, 1>>, <<1, 0, 0>>},
        o \in {<<0, 0, 0>>, <<1, 0, 1>>}}

\* lines 176-180: the eight offsets of the outline
OutlineOffsets == {<<dx, dy>> : dx \in -1..1, dy \in -1..1} \ {<<0, 0>>}

\* the same offsets in the order of the array
OutlineOrder ==
    << <<-1, -1>>, <<0, -1>>, <<1, -1>>,
       <<-1, 0>>,             <<1, 0>>,
       <<-1, 1>>,  <<0, 1>>,  <<1, 1>> >>

\* lines 170-171
text_cr(config) == guard_color_key(text_colorref(config))

outline_cr(config) == guard_color_key(outline_colorref(config))

PtInit ==
    /\ PaintIdle
    /\ MainIdle /\ HkIdle /\ LdIdle /\ GeomIdle /\ ColorIdle /\ CellIdle /\ CallIdle
    /\ TimeIdle

\* lines 132-135: BeginPaint, get_config
PtBegin ==
    /\ p_pc = "idle"
    /\ p_paints < MaxPaints
    /\ \E config \in PaintConfigs : p_config' = config
    /\ p_brush' = "none"
    /\ p_font' = "none"
    /\ p_fill' = None
    /\ p_draws' = {}
    /\ p_seq' = <<>>
    /\ p_pc' = "brush"
    /\ UNCHANGED <<p_selected, p_textcolor, p_paints, notPaint>>

\* line 140: CreateSolidBrush(COLOR_KEY)
PtCreateBrush ==
    /\ p_pc = "brush"
    /\ p_brush' = "live"
    /\ p_pc' = "fill"
    /\ UNCHANGED <<p_config, p_font, p_selected, p_fill, p_textcolor, p_draws, p_seq,
                   p_paints, notPaint>>

\* line 141: FillRect(hdc, &rc, key_brush)
PtFillRect ==
    /\ p_pc = "fill"
    /\ p_fill' = Some(COLOR_KEY)
    /\ p_pc' = "delbrush"
    /\ UNCHANGED <<p_config, p_brush, p_font, p_selected, p_textcolor, p_draws, p_seq,
                   p_paints, notPaint>>

\* line 142: DeleteObject(key_brush)
PtDeleteBrush ==
    /\ p_pc = "delbrush"
    /\ p_brush' = "deleted"
    /\ p_pc' = "font"
    /\ UNCHANGED <<p_config, p_font, p_selected, p_fill, p_textcolor, p_draws, p_seq,
                   p_paints, notPaint>>

\* lines 145-160: CreateFontW
PtCreateFont ==
    /\ p_pc = "font"
    /\ p_font' = "live"
    /\ p_pc' = "select"
    /\ UNCHANGED <<p_config, p_brush, p_selected, p_fill, p_textcolor, p_draws, p_seq,
                   p_paints, notPaint>>

\* lines 161-171: SelectObject(hdc, font) returns the old font
PtSelectFont ==
    /\ p_pc = "select"
    /\ p_selected' = "font"
    /\ p_pc' = "style"
    /\ UNCHANGED <<p_config, p_brush, p_font, p_fill, p_textcolor, p_draws, p_seq,
                   p_paints, notPaint>>

\* An outline drawn in the colour as configured.
PtOutline_unguarded ==
    /\ p_pc = "style" /\ p_config.text_style = "Outline"
    /\ p_textcolor' = outline_colorref(p_config)
    /\ p_draws' = p_draws \cup {<<o[1], o[2], p_textcolor'>> : o \in OutlineOffsets}
    /\ p_seq' = p_seq \o [i \in 1..Len(OutlineOrder) |->
                        <<OutlineOrder[i][1], OutlineOrder[i][2], p_textcolor'>>]
    /\ p_pc' = "text"
    /\ UNCHANGED <<p_config, p_brush, p_font, p_selected, p_fill, p_paints, notPaint>>

\* lines 174-182: SetTextColor(outline_cr), eight TextOutW
PtOutline ==
    /\ p_pc = "style" /\ p_config.text_style = "Outline"
    /\ p_textcolor' = outline_cr(p_config)
    /\ p_draws' = p_draws \cup {<<o[1], o[2], p_textcolor'>> : o \in OutlineOffsets}
    /\ p_seq' = p_seq \o [i \in 1..Len(OutlineOrder) |->
                        <<OutlineOrder[i][1], OutlineOrder[i][2], p_textcolor'>>]
    /\ p_pc' = "text"
    /\ UNCHANGED <<p_config, p_brush, p_font, p_selected, p_fill, p_paints, notPaint>>

\* lines 186-188: SetTextColor(outline_cr), TextOutW at (+2, +2)
PtShadow ==
    /\ p_pc = "style" /\ p_config.text_style = "Shadow"
    /\ p_textcolor' = outline_cr(p_config)
    /\ p_draws' = p_draws \cup {<<2, 2, p_textcolor'>>}
    /\ p_seq' = Append(p_seq, <<2, 2, p_textcolor'>>)
    /\ p_pc' = "text"
    /\ UNCHANGED <<p_config, p_brush, p_font, p_selected, p_fill, p_paints, notPaint>>

\* A paint whose text draw goes under the style draws instead of over them.
PtText_drawn_first ==
    /\ p_pc = "text" \/ (p_pc = "style" /\ p_config.text_style = "None")
    /\ p_textcolor' = text_cr(p_config)
    /\ p_draws' = p_draws \cup {<<0, 0, p_textcolor'>>}
    /\ p_seq' = << <<0, 0, p_textcolor'>> >> \o p_seq
    /\ p_pc' = "restore"
    /\ UNCHANGED <<p_config, p_brush, p_font, p_selected, p_fill, p_paints, notPaint>>

\* lines 183-184, 189-190, 193-194: SetTextColor(text_cr), TextOutW
PtText ==
    /\ p_pc = "text" \/ (p_pc = "style" /\ p_config.text_style = "None")
    /\ p_textcolor' = text_cr(p_config)
    /\ p_draws' = p_draws \cup {<<0, 0, p_textcolor'>>}
    /\ p_seq' = Append(p_seq, <<0, 0, p_textcolor'>>)
    /\ p_pc' = "restore"
    /\ UNCHANGED <<p_config, p_brush, p_font, p_selected, p_fill, p_paints, notPaint>>

\* A paint that leaves its font selected.
PtRestoreFont_skipped ==
    /\ p_pc = "restore"
    /\ p_pc' = "delfont"
    /\ UNCHANGED <<p_config, p_brush, p_font, p_selected, p_fill, p_textcolor,
                   p_draws, p_seq, p_paints, notPaint>>

\* line 198: SelectObject(hdc, old_font)
PtRestoreFont ==
    /\ p_pc = "restore"
    /\ p_selected' = "old"
    /\ p_pc' = "delfont"
    /\ UNCHANGED <<p_config, p_brush, p_font, p_fill, p_textcolor, p_draws, p_seq,
                   p_paints, notPaint>>

\* line 199: DeleteObject(font)
PtDeleteFont ==
    /\ p_pc = "delfont"
    /\ p_font' = IF p_selected = "font" THEN p_font ELSE "deleted"
    /\ p_pc' = "end"
    /\ UNCHANGED <<p_config, p_brush, p_selected, p_fill, p_textcolor, p_draws, p_seq,
                   p_paints, notPaint>>

\* lines 201-202: EndPaint
PtEnd ==
    /\ p_pc = "end"
    /\ p_paints' = p_paints + 1
    /\ p_pc' = "idle"
    /\ UNCHANGED <<p_config, p_brush, p_font, p_selected, p_fill, p_textcolor,
                   p_draws, p_seq, notPaint>>

PtNext ==
    \/ PtBegin
    \/ PtCreateBrush
    \/ PtFillRect
    \/ PtDeleteBrush
    \/ PtCreateFont
    \/ PtSelectFont
    \/ PtOutline
    \/ PtShadow
    \/ PtText
    \/ PtRestoreFont
    \/ PtDeleteFont
    \/ PtEnd

SpecPaint == PtInit /\ [][PtNext]_vars

\* The GDI objects created by paint and not deleted.
PaintLive ==
    (IF p_brush = "live" THEN 1 ELSE 0) + (IF p_font = "live" THEN 1 ELSE 0)

\* C29: every paint releases the temporary drawing resources it created
\* before returning: the key-colour brush and the font are each created once
\* and deleted once per paint and the previous font is re-selected, for
\* every text style, so after any number of paints the number of live
\* drawing resources created by paint is zero.
C29_PaintReleasesResources ==
    /\ [](p_pc = "idle" => PaintLive = 0 /\ p_selected = "old")
    /\ [](p_pc = "idle" /\ p_paints > 0 => p_brush = "deleted" /\ p_font = "deleted")
    /\ [][/\ p_brush' = "live" /\ p_brush # "live" => p_brush = "none"
          /\ p_font' = "live" /\ p_font # "live" => p_font = "none"
          /\ p_brush' = "deleted" /\ p_brush # "deleted" => p_brush = "live"
          /\ p_font' = "deleted" /\ p_font # "deleted" => p_font = "live"]_vars

\* Two paints have returned, the second one in the Shadow style.
C29_Witness ==
    /\ p_pc = "idle"
    /\ p_paints = MaxPaints
    /\ p_config.text_style = "Shadow"
    /\ Cardinality(p_draws) = 2
    /\ PaintLive = 0

\* C30: in every paint and for every config, the key-collision guard is
\* applied to both the text colour and the outline/shadow colour, so no text
\* draw ever uses the key colour 0x00010001, while the background is always
\* filled with exactly the key colour.
C30_PaintColours ==
    /\ \A d \in p_draws :
          /\ d[3] # COLOR_KEY
          /\ d[3] = IF d[1] = 0 /\ d[2] = 0 THEN text_cr(p_config)
                    ELSE outline_cr(p_config)
    /\ p_pc \notin {"idle", "brush", "fill"} => p_fill = Some(COLOR_KEY)
    /\ p_fill \in {None, Some(COLOR_KEY)}
    /\ p_pc \in {"restore", "delfont", "end"} \/ (p_pc = "idle" /\ p_paints > 0)
          => /\ <<0, 0, text_cr(p_config)>> \in p_draws
             /\ Cardinality(p_draws) =
                  CASE p_config.text_style = "Outline" -> 9
                    [] p_config.text_style = "Shadow" -> 2
                    [] OTHER -> 1

\* An Outline paint with both colours configured as the key colour has
\* returned: nine draws, none in the key colour.
C30_Witness ==
    /\ p_pc = "idle" /\ p_paints > 0
    /\ p_config.text_style = "Outline"
    /\ text_colorref(p_config) = COLOR_KEY
    /\ outline_colorref(p_config) = COLOR_KEY
    /\ Cardinality(p_draws) = 9
    /\ p_fill = Some(COLOR_KEY)

\* The style match of a paint has run to its end.
PtStyleDone ==
    p_pc \in {"restore", "delfont", "end"} \/ (p_pc = "idle" /\ p_paints > 0)

\* C31: None draws the string once in the text colour at the anchor; Outline
\* draws it eight times in the outline colour at the eight one-pixel offsets
\* and then once in the text colour at the anchor; Shadow draws it once in
\* the outline colour at (+2,+2) and then once in the text colour at the
\* anchor; in every style the text-colour draw at the anchor is the last.
C31_DrawSequence ==
    PtStyleDone =>
        /\ p_seq[Len(p_seq)] = <<0, 0, text_cr(p_config)>>
        /\ CASE p_config.text_style = "None" -> Len(p_seq) = 1
             [] p_config.text_style = "Shadow" ->
                    /\ Len(p_seq) = 2
                    /\ p_seq[1] = <<2, 2, outline_cr(p_config)>>
             [] p_config.text_style = "Outline" ->
                    /\ Len(p_seq) = 9
                    /\ \A i \in 1..8 : p_seq[i][3] = outline_cr(p_config)
                    /\ {<<p_seq[i][1], p_seq[i][2]>> : i \in 1..8}
                          = ({-1, 0, 1} \X {-1, 0, 1}) \ {<<0, 0>>}

\* An Outline paint whose two colours differ has made its nine draws.
C31_Witness ==
    /\ PtStyleDone
    /\ p_config.text_style = "Outline"
    /\ text_cr(p_config) # outline_cr(p_config)
    /\ Len(p_seq) = 9
    /\ p_seq[9] = <<0, 0, text_cr(p_config)>>
    /\ p_seq[1] = <<-1, -1, outline_cr(p_config)>>

(***************************************************************************)
(* Specification of format_time: a wall-clock time is formatted.           *)
(***************************************************************************)
\* chrono %H, %M, %S and %I: two digits, zero-padded
Pad2(n) == <<Digits[(n \div 10) + 1], Digits[(n % 10) + 1]>>

\* chrono %I: the hour of the 12-hour clock, 12 for midnight and noon
hour12(hour) == IF hour % 12 = 0 THEN 12 ELSE hour % 12

\* chrono %p
AmPm(hour) == IF hour < 12 THEN <<"A", "M">> ELSE <<"P", "M">>

\* A 12-hour clock whose hour is not zero-padded.
format_time_hour_unpadded(config, t) ==
    LET hh == IF config.format_24h THEN Pad2(t[1])
              ELSE IF hour12(t[1]) < 10 THEN <<Digits[hour12(t[1]) + 1]>>
              ELSE Pad2(hour12(t[1]))
        ss == IF config.show_seconds THEN <<":">> \o Pad2(t[3]) ELSE <<>>
        pp == IF config.format_24h THEN <<>> ELSE <<" ">> \o AmPm(t[1])
    IN  hh \o <<":">> \o Pad2(t[2]) \o ss \o pp

\* format_time, with the value of Local::now() as a parameter
format_time(config, t) ==
    CASE config.format_24h /\ config.show_seconds ->
            Pad2(t[1]) \o <<":">> \o Pad2(t[2]) \o <<":">> \o Pad2(t[3])
      [] config.format_24h /\ ~config.show_seconds ->
            Pad2(t[1]) \o <<":">> \o Pad2(t[2])
      [] ~config.format_24h /\ config.show_seconds ->
            Pad2(hour12(t[1])) \o <<":">> \o Pad2(t[2]) \o <<":">> \o Pad2(t[3])
                \o <<" ">> \o AmPm(t[1])
      [] OTHER ->
            Pad2(hour12(t[1])) \o <<":">> \o Pad2(t[2]) \o <<" ">> \o AmPm(t[1])

\* The wall-clock times tried: every hour, and minutes and seconds at both
\* ends of the range and on both sides of the one-digit / two-digit border.
ClockHours == 0..23

ClockMinutes == {0, 9, 10, 59}

ClockSeconds == {0, 9, 10, 59}

TimeConfigs ==
    {[DefaultConfig EXCEPT !.format_24h = f, !.show_seconds = s] :
        f \in BOOLEAN, s \in BOOLEAN}

TmInit ==
    /\ t_config \in TimeConfigs
    /\ now \in ClockHours \X ClockMinutes \X ClockSeconds
    /\ time_str = <<>>
    /\ t_pc = "input"
    /\ MainIdle /\ HkIdle /\ LdIdle /\ GeomIdle /\ ColorIdle /\ CellIdle /\ CallIdle
    /\ PaintIdle

TmFormat ==
    /\ t_pc = "input"
    /\ time_str' = format_time(t_config, now)
    /\ t_pc' = "done"
    /\ UNCHANGED <<t_config, now, notTime>>

TmNext == TmFormat

SpecTime == TmInit /\ [][TmNext]_vars

\* C34: for every (format_24h, show_seconds) and every wall-clock time the
\* string format_time produces has the character count calc_window_rect
\* uses for that combination (5, 8, 8, 11), has ':' at the fixed positions
\* and, in 12-hour mode, ends with AM or PM.
C34_TimeStringShape ==
    t_pc = "done" =>
        LET n == Len(time_str)
        IN  /\ n = text_chars(t_config)
            /\ n = IF t_config.format_24h
                   THEN (IF t_config.show_seconds THEN 8 ELSE 5)
                   ELSE (IF t_config.show_seconds THEN 11 ELSE 8)
            /\ time_str[3] = ":"
            /\ t_config.show_seconds => time_str[6] = ":"
            /\ \A i \in 1..n : time_str[i] = ":" <=>
                    (i = 3 \/ (t_config.show_seconds /\ i = 6))
            /\ ~t_config.format_24h =>
                    /\ SubSeq(time_str, n - 1, n) \in {<<"A", "M">>, <<"P", "M">>}
                    /\ time_str[n - 2] = " "

\* 09:10:59 in the morning in 12-hour mode with seconds: eleven characters.
C34_Witness ==
    /\ t_pc = "done"
    /\ ~t_config.format_24h /\ t_config.show_seconds
    /\ now = <<9, 10, 59>>
    /\ time_str = <<"0", "9", ":", "1", "0", ":", "5", "9", " ", "A", "M">>

(***************************************************************************)
(* The program: main.rs (startup, message loop), overlay.rs (Overlay,      *)
(* wnd_proc) and settings.rs (SettingsApp).                                *)
(*                                                                         *)
(* Everything runs on the main thread: open_settings blocks the message    *)
(* loop of main() and pumps the thread's messages itself until the window  *)
(* closes.  The operating system posts hotkey messages, raises the timer   *)
(* and moves the foreground window at any time.                            *)
(***************************************************************************)
MaxPosted == 1

MaxMenu == 1

MaxApplies == 1

\* (config.opacity as f32 / 100.0 * 255.0) as u8: truncated towards zero,
\* which is floor(opacity * 255 / 100) for every u8 opacity; the cast to u8
\* saturates.
alpha_of(config) ==
    LET a == (config.opacity * 255) \div 100 IN IF a > U8Max THEN U8Max ELSE a

\* get_config: the cell's value, or the default while the cell is unset
get_config_of(cell) == IF cell.some THEN cell.val ELSE DefaultConfig

\* The monitors of the desktop the program runs on.
DesktopMonitors == {PRIMARY, OFFSET}

Overlap(rect, mon) ==
    LET l == IF rect[1] > mon[1] THEN rect[1] ELSE mon[1]
        t == IF rect[2] > mon[2] THEN rect[2] ELSE mon[2]
        r == IF rect[1] + rect[3] < mon[1] + mon[3]
             THEN rect[1] + rect[3] ELSE mon[1] + mon[3]
        b == IF rect[2] + rect[4] < mon[2] + mon[4]
             THEN rect[2] + rect[4] ELSE mon[2] + mon[4]
    IN  IF r > l /\ b > t THEN (r - l) * (b - t) ELSE 0

\* monitor_rect_for(hwnd) of the overlay window: MonitorFromWindow with
\* MONITOR_DEFAULTTOPRIMARY, the monitor the window overlaps most.
monitor_rect_for_window(rect) ==
    IF \A m \in DesktopMonitors : Overlap(rect, m) = 0 THEN PRIMARY
    ELSE CHOOSE m \in DesktopMonitors :
            \A o \in DesktopMonitors : Overlap(rect, m) >= Overlap(rect, o)

\* SettingsApp::find_hotkey_indices
find_hotkey_indices(hotkey) ==
    LET parts == SplitTrim(hotkey)
        key_name == parts[Len(parts)]
        mod_str == IF Len(parts) >= 2
                   THEN JoinPlus(SubSeq(parts, 1, Len(parts) - 1))
                   ELSE <<"C", "t", "r", "l">>
        m == TablePosition(MODIFIER_OPTIONS, mod_str)
        k == TablePosition(KEY_OPTIONS, key_name)
    IN  <<IF m < 0 THEN 0 ELSE m, IF k < 0 THEN Len(KEY_OPTIONS) - 1 ELSE k>>

\* SettingsApp::new
SettingsApp_new(config) ==
    [config |-> config,
     selected_mod |-> find_hotkey_indices(config.hotkey)[1],
     selected_key |-> find_hotkey_indices(config.hotkey)[2]]

\* The files the program may find at startup: none, a hand-written one, and
\* the hand-written one with a hotkey line that names a key and no modifier.
HandWritten ==
    [kind |-> "toml",
     doc |-> [k \in ConfigKeys |->
                CASE k = "opacity" -> IntV(5)
                  [] k = "font_size" -> IntV(75)
                  [] k = "hotkey" -> StrV(AltF1)
                  [] k = "position" -> StrV("top-left")
                  [] OTHER -> Absent]]

Mistyped == [HandWritten EXCEPT !.doc["hotkey"] = StrV(<<"F", "1">>)]

StartFiles == {[kind |-> "missing"], HandWritten, Mistyped}

\* What the user sets in the settings form.
EditPositions == {"TopRight"}

EditFontSizes == {60}

EditOpacities == {25}

EditMods == {1}

EditKeys == {0}

Init ==
    /\ pc = "start"
    /\ win = "None"
    /\ OVERLAY_VISIBLE = FALSE
    /\ HOTKEY_REREGISTER = FALSE
    /\ OVERLAY_CONFIG = None
    /\ app = None
    /\ posted = <<>>
    /\ timer_on = FALSE
    /\ timer_due = FALSE
    /\ paint_due = FALSE
    /\ menu_events = <<>>
    /\ registered = {}
    /\ win_rect = <<0, 0, 0, 0>>
    /\ win_alpha = 0
    /\ fg_monitor \in DesktopMonitors
    /\ last_applied = None
    /\ applies = 0
    /\ painted = None
    /\ wnd_class = "none"
    /\ win_key = 0
    /\ attempted = None
    /\ hotkey_error = None
    /\ file \in StartFiles
    /\ loaded = DefaultConfig
    /\ ld_pc = "idle"
    /\ rt_config = DefaultConfig
    /\ HkIdle /\ GeomIdle /\ ColorIdle /\ CellIdle /\ CallIdle /\ PaintIdle
    /\ TimeIdle

\* register_hotkey: RegisterHotKey succeeds, and the OS keeps the combination
\* along with whatever it already holds under HOTKEY_ID, or fails
\* (combination taken).
register_hotkey(held, config, ok) ==
    IF ok THEN held \cup {parsed_hotkey(config)} ELSE held

\* unregister_hotkey: UnregisterHotKey frees what is held under HOTKEY_ID.
unregister_hotkey(held) == {}

\* A startup that goes on into the loop when the window was not created.
Startup_creation_unchecked ==
    /\ pc = "start"
    /\ \E class \in BOOLEAN, created \in BOOLEAN, ok \in BOOLEAN :
        LET config == load_from(file)
        IN  /\ created => class
            /\ OVERLAY_CONFIG' = Some(config)
            /\ wnd_class' = IF class THEN "registered" ELSE "failed"
            /\ IF created
               THEN /\ win' = "Hidden"
                    /\ win_rect' = calc_window_rect(config, PRIMARY)
                    /\ win_alpha' = alpha_of(config)
                    /\ win_key' = COLOR_KEY
                    /\ timer_on' = TRUE
                    /\ registered' = register_hotkey(registered, config, ok)
                    /\ attempted' = Some(parsed_hotkey(config))
                    /\ hotkey_error' = IF ok THEN None ELSE Some(config.hotkey)
                    /\ pc' = "top"
               ELSE /\ pc' = "top"     
                    /\ UNCHANGED <<win, win_rect, win_alpha, win_key, timer_on,
                                   registered, attempted, hotkey_error>>
    /\ UNCHANGED <<OVERLAY_VISIBLE, HOTKEY_REREGISTER, app, posted, timer_due,
                   paint_due, menu_events, fg_monitor, last_applied, applies, file,
                   painted, notMain>>

\* main(), lines 142-169: load, Overlay::new, register the hotkey, tray.
\* RegisterClassW's result is not looked at (overlay.rs 396); without the
\* class CreateWindowExW fails, and CreateWindowExW(..).unwrap() panics when
\* the window cannot be created.
Startup ==
    /\ pc = "start"
    /\ \E class \in BOOLEAN, created \in BOOLEAN, ok \in BOOLEAN :
        LET config == load_from(file)
        IN  /\ created => class
            /\ OVERLAY_CONFIG' = Some(config)
            /\ wnd_class' = IF class THEN "registered" ELSE "failed"
            /\ IF created
               THEN /\ win' = "Hidden"
                    /\ win_rect' = calc_window_rect(config, PRIMARY)
                    /\ win_alpha' = alpha_of(config)
                    /\ win_key' = COLOR_KEY
                    /\ timer_on' = TRUE
                    /\ registered' = register_hotkey(registered, config, ok)
                    /\ attempted' = Some(parsed_hotkey(config))
                    /\ hotkey_error' = IF ok THEN None ELSE Some(config.hotkey)
                    /\ pc' = "top"
               ELSE /\ pc' = "panicked"
                    /\ UNCHANGED <<win, win_rect, win_alpha, win_key, timer_on,
                                   registered, attempted, hotkey_error>>
    /\ UNCHANGED <<OVERLAY_VISIBLE, HOTKEY_REREGISTER, app, posted, timer_due,
                   paint_due, menu_events, fg_monitor, last_applied, applies, file,
                   painted, notMain>>

\* A re-registration that does not unregister first.
Reregistered_without_unregister(flag, ok) ==
    IF flag THEN register_hotkey(registered, load_from(file), ok) ELSE registered

\* Re-registration (main.rs 175-181 and 190-196) on the values it reads.
Reregistered(flag, ok) ==
    IF flag THEN register_hotkey(unregister_hotkey(registered), load_from(file), ok)
    ELSE registered

\* register_hotkey(&fresh): the combination handed to RegisterHotKey
Attempted(flag) ==
    IF flag THEN Some(parsed_hotkey(load_from(file))) ELSE attempted

\* A re-registration that shows no warning.
HotkeyError_silent(flag, ok) == hotkey_error

\* show_hotkey_error(&fresh.hotkey) when the registration failed
HotkeyError(flag, ok) ==
    IF ~flag THEN hotkey_error
    ELSE IF ok THEN None ELSE Some(load_from(file).hotkey)

\* main loop, lines 175-181: act on the re-register flag.
LoopTop ==
    /\ pc = "top"
    /\ \E ok \in BOOLEAN :
          /\ registered' = Reregistered(HOTKEY_REREGISTER, ok)
          /\ hotkey_error' = HotkeyError(HOTKEY_REREGISTER, ok)
    /\ attempted' = Attempted(HOTKEY_REREGISTER)
    /\ HOTKEY_REREGISTER' = FALSE
    /\ pc' = "menu"
    /\ UNCHANGED <<win, OVERLAY_VISIBLE, OVERLAY_CONFIG, app, posted, timer_on,
                   timer_due, paint_due, menu_events, win_rect, win_alpha,
                   fg_monitor, last_applied, applies, file, painted, wnd_class, win_key,
                   notMain>>

\* lines 184-188: the Settings menu event opens the settings window.
MenuSettings ==
    /\ pc = "menu"
    /\ menu_events # <<>> /\ Head(menu_events) = "settings"
    /\ menu_events' = Tail(menu_events)
    /\ app' = SettingsApp_new(load_from(file))
    /\ pc' = "settings"
    /\ UNCHANGED <<win, OVERLAY_VISIBLE, HOTKEY_REREGISTER, OVERLAY_CONFIG, posted,
                   timer_on, timer_due, paint_due, registered, win_rect, win_alpha,
                   fg_monitor, last_applied, applies, file, painted, wnd_class, win_key,
                   attempted, hotkey_error, notMain>>

\* A Quit without line 233: the hotkey stays registered.
MenuQuit_hotkey_kept ==
    /\ pc = "menu"
    /\ menu_events # <<>> /\ Head(menu_events) = "quit"
    /\ menu_events' = Tail(menu_events)
    /\ win' = "Destroyed"
    /\ timer_on' = FALSE
    /\ timer_due' = FALSE
    /\ paint_due' = FALSE
    /\ UNCHANGED registered
    /\ pc' = "exited"
    /\ UNCHANGED <<OVERLAY_VISIBLE, HOTKEY_REREGISTER, OVERLAY_CONFIG, app, posted,
                   win_rect, win_alpha, fg_monitor, last_applied, applies, file, painted, wnd_class, win_key,
                   attempted, hotkey_error, notMain>>

\* lines 197-199 and 233: the Quit menu event.  overlay.destroy() runs
\* WM_DESTROY (KillTimer, PostQuitMessage) and the loop is left at once;
\* unregister_hotkey follows.
MenuQuit ==
    /\ pc = "menu"
    /\ menu_events # <<>> /\ Head(menu_events) = "quit"
    /\ menu_events' = Tail(menu_events)
    /\ win' = "Destroyed"
    /\ timer_on' = FALSE
    /\ timer_due' = FALSE
    /\ paint_due' = FALSE
    /\ registered' = unregister_hotkey(registered)
    /\ pc' = "exited"
    /\ UNCHANGED <<OVERLAY_VISIBLE, HOTKEY_REREGISTER, OVERLAY_CONFIG, app, posted,
                   win_rect, win_alpha, fg_monitor, last_applied, applies, file, painted, wnd_class, win_key,
                   attempted, hotkey_error, notMain>>

\* line 184: the channel is empty, the loop goes on to the Win32 messages.
MenuDone ==
    /\ pc = "menu"
    /\ menu_events = <<>>
    /\ pc' = "msgs"
    /\ UNCHANGED <<win, OVERLAY_VISIBLE, HOTKEY_REREGISTER, OVERLAY_CONFIG, app,
                   posted, timer_on, timer_due, paint_due, menu_events, registered,
                   win_rect, win_alpha, fg_monitor, last_applied, applies, file, painted, wnd_class, win_key,
                   attempted, hotkey_error, notMain>>

\* An update_config that stores nothing.
update_config_dropped(config) == OVERLAY_CONFIG

\* update_config: stores into the cell only once the cell exists
update_config(config) == IF OVERLAY_CONFIG.some THEN Some(config) ELSE OVERLAY_CONFIG

\* Overlay::show after main's update_config(&fresh)
show_rect(config) == calc_window_rect(config, fg_monitor)

\* The toggle without line 219: the window is shown, the flag is not stored.
HandleHotkey_flag_not_stored ==
    /\ pc = "msgs"
    /\ posted # <<>> /\ Head(posted) = "WM_HOTKEY"
    /\ posted' = Tail(posted)
    /\ IF OVERLAY_VISIBLE
       THEN /\ win' = "Hidden"
            /\ OVERLAY_VISIBLE' = FALSE
            /\ UNCHANGED <<OVERLAY_CONFIG, win_rect, win_alpha, win_key, paint_due>>
       ELSE LET fresh == load_from(file)
                config == get_config_of(update_config(fresh))
            IN  /\ OVERLAY_CONFIG' = update_config(fresh)
                /\ win_rect' = show_rect(config)
                /\ win_alpha' = alpha_of(config)
                /\ win_key' = COLOR_KEY
                /\ win' = "Visible"
                /\ paint_due' = TRUE
                /\ UNCHANGED OVERLAY_VISIBLE
    /\ UNCHANGED <<pc, HOTKEY_REREGISTER, app, timer_on, timer_due, menu_events,
                   registered, fg_monitor, last_applied, applies, file, painted, wnd_class,
                   attempted, hotkey_error, notMain>>

\* lines 210-221: a WM_HOTKEY toggles the overlay.  Showing reloads the file
\* into the cell first (lines 216-217); show() reads the cell.
HandleHotkey ==
    /\ pc = "msgs"
    /\ posted # <<>> /\ Head(posted) = "WM_HOTKEY"
    /\ posted' = Tail(posted)
    /\ IF OVERLAY_VISIBLE
       THEN /\ win' = "Hidden"
            /\ OVERLAY_VISIBLE' = FALSE
            /\ UNCHANGED <<OVERLAY_CONFIG, win_rect, win_alpha, win_key, paint_due>>
       ELSE LET fresh == load_from(file)
                config == get_config_of(update_config(fresh))
            IN  /\ OVERLAY_CONFIG' = update_config(fresh)
                /\ win_rect' = show_rect(config)
                /\ win_alpha' = alpha_of(config)
                /\ win_key' = COLOR_KEY
                /\ win' = "Visible"
                /\ paint_due' = TRUE
                /\ OVERLAY_VISIBLE' = TRUE
    /\ UNCHANGED <<pc, HOTKEY_REREGISTER, app, timer_on, timer_due, menu_events,
                   registered, fg_monitor, last_applied, applies, file, painted, wnd_class,
                   attempted, hotkey_error, notMain>>

\* A tick that follows the foreground window's monitor.
TimerTick_foreground_monitor ==
    LET config == get_config_of(OVERLAY_CONFIG)
        monitor == fg_monitor
    IN  /\ timer_due
        /\ timer_due' = FALSE
        /\ win_rect' = calc_window_rect(config, monitor)
        /\ win_alpha' = alpha_of(config)
        /\ win_key' = COLOR_KEY
        /\ paint_due' = TRUE

\* A tick without line 210: placement and repaint only.
TimerTick_alpha_kept ==
    LET config == get_config_of(OVERLAY_CONFIG)
        monitor == monitor_rect_for_window(win_rect)
    IN  /\ timer_due
        /\ timer_due' = FALSE
        /\ win_rect' = calc_window_rect(config, monitor)
        /\ UNCHANGED <<win_alpha, win_key>>
        /\ paint_due' = TRUE

\* wnd_proc WM_TIMER (overlay.rs 204-214)
TimerTick ==
    LET config == get_config_of(OVERLAY_CONFIG)
        monitor == monitor_rect_for_window(win_rect)
    IN  /\ timer_due
        /\ timer_due' = FALSE
        /\ win_rect' = calc_window_rect(config, monitor)
        /\ win_alpha' = alpha_of(config)
        /\ win_key' = COLOR_KEY
        /\ paint_due' = TRUE

\* wnd_proc WM_PAINT (overlay.rs 131-203): validates the window
Paint ==
    LET config == get_config_of(OVERLAY_CONFIG)
    IN  /\ paint_due /\ win = "Visible"
        /\ paint_due' = FALSE
        /\ painted' = Some([font_size |-> config.font_size,
                            format_24h |-> config.format_24h,
                            show_seconds |-> config.show_seconds,
                            text_style |-> config.text_style,
                            text_color |-> config.text_color,
                            outline_color |-> config.outline_color])

\* lines 205-225: with no posted message left, PeekMessageW delivers a due
\* WM_PAINT, then a due WM_TIMER, to wnd_proc.
DispatchPaint ==
    /\ pc = "msgs" /\ posted = <<>>
    /\ Paint
    /\ UNCHANGED <<pc, win, OVERLAY_VISIBLE, HOTKEY_REREGISTER, OVERLAY_CONFIG, app,
                   posted, timer_on, timer_due, menu_events, registered, win_rect,
                   win_alpha, fg_monitor, last_applied, applies, file, wnd_class, win_key,
                   attempted, hotkey_error, notMain>>

DispatchTimer ==
    /\ pc = "msgs" /\ posted = <<>> /\ ~(paint_due /\ win = "Visible")
    /\ TimerTick
    /\ UNCHANGED <<pc, win, OVERLAY_VISIBLE, HOTKEY_REREGISTER, OVERLAY_CONFIG, app,
                   posted, timer_on, menu_events, registered, fg_monitor,
                   last_applied, applies, file, painted, wnd_class,
                   attempted, hotkey_error, notMain>>

\* line 205: PeekMessageW finds nothing; line 229 waits.
MessagesDone ==
    /\ pc = "msgs" /\ posted = <<>> /\ ~timer_due /\ ~(paint_due /\ win = "Visible")
    /\ pc' = "wait"
    /\ UNCHANGED <<win, OVERLAY_VISIBLE, HOTKEY_REREGISTER, OVERLAY_CONFIG, app,
                   posted, timer_on, timer_due, paint_due, menu_events, registered,
                   win_rect, win_alpha, fg_monitor, last_applied, applies, file, painted, wnd_class, win_key,
                   attempted, hotkey_error, notMain>>

\* line 229: MsgWaitForMultipleObjects returns on input or after 50 ms.
WaitReturns ==
    /\ pc = "wait"
    /\ pc' = "top"
    /\ UNCHANGED <<win, OVERLAY_VISIBLE, HOTKEY_REREGISTER, OVERLAY_CONFIG, app,
                   posted, timer_on, timer_due, paint_due, menu_events, registered,
                   win_rect, win_alpha, fg_monitor, last_applied, applies, file, painted, wnd_class, win_key,
                   attempted, hotkey_error, notMain>>

(***************************************************************************)
(* The settings window (settings.rs).  While it is open its own event loop *)
(* retrieves the thread's messages: window messages reach wnd_proc, a      *)
(* WM_HOTKEY (a thread message, no window) reaches nobody.                 *)
(***************************************************************************)
SettingsPumpPaint ==
    /\ pc = "settings"
    /\ Paint
    /\ UNCHANGED <<pc, win, OVERLAY_VISIBLE, HOTKEY_REREGISTER, OVERLAY_CONFIG, app,
                   posted, timer_on, timer_due, menu_events, registered, win_rect,
                   win_alpha, fg_monitor, last_applied, applies, file, wnd_class, win_key,
                   attempted, hotkey_error, notMain>>

SettingsPumpTimer ==
    /\ pc = "settings"
    /\ TimerTick
    /\ UNCHANGED <<pc, win, OVERLAY_VISIBLE, HOTKEY_REREGISTER, OVERLAY_CONFIG, app,
                   posted, timer_on, menu_events, registered, fg_monitor,
                   last_applied, applies, file, painted, wnd_class,
                   attempted, hotkey_error, notMain>>

SettingsPumpHotkey ==
    /\ pc = "settings"
    /\ posted # <<>> /\ Head(posted) = "WM_HOTKEY"
    /\ posted' = Tail(posted)
    /\ UNCHANGED <<pc, win, OVERLAY_VISIBLE, HOTKEY_REREGISTER, OVERLAY_CONFIG, app,
                   timer_on, timer_due, paint_due, menu_events, registered,
                   win_rect, win_alpha, fg_monitor, last_applied, applies, file, painted, wnd_class, win_key,
                   attempted, hotkey_error, notMain>>

\* The form is edited only while an Apply can still follow: the form's
\* fields reach the rest of the program through Apply alone.
settingsUnchanged ==
    <<pc, win, OVERLAY_VISIBLE, HOTKEY_REREGISTER, OVERLAY_CONFIG, posted, timer_on,
      timer_due, paint_due, menu_events, registered, win_rect, win_alpha,
      fg_monitor, last_applied, applies, file, painted, wnd_class, win_key,
                   attempted, hotkey_error, notMain>>

\* SettingsApp::update, lines 74-89: the position radio buttons
SetPosition ==
    /\ pc = "settings"
    /\ applies < MaxApplies
    /\ \E p \in EditPositions : app' = [app EXCEPT !.config.position = p]
    /\ UNCHANGED settingsUnchanged

\* lines 112-122: the font size slider (10..=60)
SetFontSize ==
    /\ pc = "settings"
    /\ applies < MaxApplies
    /\ \E z \in EditFontSizes : app' = [app EXCEPT !.config.font_size = z]
    /\ UNCHANGED settingsUnchanged

\* An opacity slider whose range starts at 0.
SetOpacity_from_zero ==
    /\ pc = "settings"
    /\ applies < MaxApplies
    /\ \E o \in EditOpacities \cup {0} : app' = [app EXCEPT !.config.opacity = o]
    /\ UNCHANGED settingsUnchanged

\* lines 157-164: the opacity slider (25..=100)
SetOpacity ==
    /\ pc = "settings"
    /\ applies < MaxApplies
    /\ \E o \in EditOpacities : app' = [app EXCEPT !.config.opacity = o]
    /\ UNCHANGED settingsUnchanged

\* lines 175-198: the modifier and key combo boxes
SelectHotkey ==
    /\ pc = "settings"
    /\ applies < MaxApplies
    /\ \E m \in EditMods, k \in EditKeys :
          app' = [app EXCEPT !.selected_mod = m, !.selected_key = k]
    /\ UNCHANGED settingsUnchanged

\* lines 218-224: Reset to Defaults
ResetToDefaults ==
    /\ pc = "settings"
    /\ applies < MaxApplies
    /\ app' = SettingsApp_new(DefaultConfig)
    /\ UNCHANGED settingsUnchanged

\* Config::save: writes the full schema, or fails and leaves the file alone
save(config, ok) == IF ok THEN to_toml(config) ELSE file

\* lines 207-217: Apply
Apply ==
    /\ pc = "settings"
    /\ applies < MaxApplies
    /\ \E saved \in BOOLEAN :
        LET config == [app.config EXCEPT
                          !.hotkey = build_hotkey_string(app.selected_mod,
                                                         app.selected_key)]
        IN  /\ app' = [app EXCEPT !.config = config]
            /\ file' = save(config, saved)
            /\ OVERLAY_CONFIG' = update_config(config)
            /\ HOTKEY_REREGISTER' = TRUE
            /\ last_applied' = Some(config)
            /\ applies' = applies + 1
    /\ UNCHANGED <<pc, win, OVERLAY_VISIBLE, posted, timer_on, timer_due, paint_due,
                   menu_events, registered, win_rect, win_alpha, fg_monitor, painted, wnd_class, win_key,
                   attempted, hotkey_error, notMain>>

\* The window is closed: open_settings returns and main.rs 190-196 acts on
\* the re-register flag, then goes on draining the menu events.
CloseSettings ==
    /\ pc = "settings"
    /\ app' = None
    /\ \E ok \in BOOLEAN :
          /\ registered' = Reregistered(HOTKEY_REREGISTER, ok)
          /\ hotkey_error' = HotkeyError(HOTKEY_REREGISTER, ok)
    /\ attempted' = Attempted(HOTKEY_REREGISTER)
    /\ HOTKEY_REREGISTER' = FALSE
    /\ pc' = "menu"
    /\ UNCHANGED <<win, OVERLAY_VISIBLE, OVERLAY_CONFIG, posted, timer_on, timer_due,
                   paint_due, menu_events, win_rect, win_alpha, fg_monitor,
                   last_applied, applies, file, painted, wnd_class, win_key, notMain>>

(***************************************************************************)
(* The environment: the user and the operating system.                     *)
(***************************************************************************)
Running == pc \in {"top", "menu", "msgs", "wait", "settings"}

\* The registered combination is pressed: the OS posts WM_HOTKEY.
PressHotkey ==
    /\ Running
    /\ registered # {}
    /\ Len(posted) < MaxPosted
    /\ posted' = Append(posted, "WM_HOTKEY")
    /\ UNCHANGED <<pc, win, OVERLAY_VISIBLE, HOTKEY_REREGISTER, OVERLAY_CONFIG, app,
                   timer_on, timer_due, paint_due, menu_events, registered,
                   win_rect, win_alpha, fg_monitor, last_applied, applies, file, painted, wnd_class, win_key,
                   attempted, hotkey_error, notMain>>

\* The 1000 ms timer set by Overlay::new elapses.
TimerElapses ==
    /\ Running
    /\ timer_on /\ ~timer_due
    /\ timer_due' = TRUE
    /\ UNCHANGED <<pc, win, OVERLAY_VISIBLE, HOTKEY_REREGISTER, OVERLAY_CONFIG, app,
                   posted, timer_on, paint_due, menu_events, registered, win_rect,
                   win_alpha, fg_monitor, last_applied, applies, file, painted, wnd_class, win_key,
                   attempted, hotkey_error, notMain>>

\* A tray menu item is clicked.
TrayClick ==
    /\ Running
    /\ Len(menu_events) < MaxMenu
    /\ \E item \in {"settings", "quit"} : menu_events' = Append(menu_events, item)
    /\ UNCHANGED <<pc, win, OVERLAY_VISIBLE, HOTKEY_REREGISTER, OVERLAY_CONFIG, app,
                   posted, timer_on, timer_due, paint_due, registered, win_rect,
                   win_alpha, fg_monitor, last_applied, applies, file, painted, wnd_class, win_key,
                   attempted, hotkey_error, notMain>>

\* The foreground window moves to another monitor.
ForegroundMoves ==
    /\ Running
    /\ \E m \in DesktopMonitors \ {fg_monitor} : fg_monitor' = m
    /\ UNCHANGED <<pc, win, OVERLAY_VISIBLE, HOTKEY_REREGISTER, OVERLAY_CONFIG, app,
                   posted, timer_on, timer_due, paint_due, menu_events, registered,
                   win_rect, win_alpha, last_applied, applies, file, painted, wnd_class, win_key,
                   attempted, hotkey_error, notMain>>

Next ==
    \/ Startup
    \/ LoopTop
    \/ MenuSettings
    \/ MenuQuit
    \/ MenuDone
    \/ HandleHotkey
    \/ DispatchPaint
    \/ DispatchTimer
    \/ MessagesDone
    \/ WaitReturns
    \/ SettingsPumpPaint
    \/ SettingsPumpTimer
    \/ SettingsPumpHotkey
    \/ SetPosition
    \/ SetFontSize
    \/ SetOpacity
    \/ SelectHotkey
    \/ ResetToDefaults
    \/ Apply
    \/ CloseSettings
    \/ PressHotkey
    \/ TimerElapses
    \/ TrayClick
    \/ ForegroundMoves

Spec == Init /\ [][Next]_vars

(***************************************************************************)
(* Visibility of the overlay window.                                       *)
(***************************************************************************)
Shown(w) == w = "Visible"

Exists(w) == w \in {"Hidden", "Visible"}

TimerStep == DispatchTimer \/ SettingsPumpTimer

PaintStep == DispatchPaint \/ SettingsPumpPaint

\* C1 as stated: the overlay is Hidden after creation; visibility changes
\* only when the loop processes a hotkey toggle, and every processed toggle
\* flips it; OVERLAY_VISIBLE always equals the window's visibility; timer
\* ticks, paints and Apply never change visibility.
C1_VisibilityOnlyByToggle_Original ==
    [][/\ (pc = "start" /\ pc' = "top") => win' = "Hidden"
       /\ (Shown(win') # Shown(win)) => HandleHotkey
       /\ HandleHotkey => (Shown(win') # Shown(win))
       /\ OVERLAY_VISIBLE' = Shown(win')
       /\ (TimerStep \/ PaintStep \/ Apply) =>
             (win' = win /\ OVERLAY_VISIBLE' = OVERLAY_VISIBLE)]_vars

\* C1, amended: the overlay is Hidden after creation; for as long as the
\* window exists its visibility changes only when the loop processes a hotkey
\* toggle, every processed toggle flips it, and OVERLAY_VISIBLE equals the
\* window's visibility; the only other change is the Quit menu event, which
\* destroys the window and leaves OVERLAY_VISIBLE as it was; timer ticks,
\* paints and Apply never change visibility.
C1_VisibilityByToggleOrQuit ==
    [][/\ (pc = "start" /\ pc' = "top") => (win' = "Hidden" /\ ~OVERLAY_VISIBLE')
       /\ (Exists(win) /\ win' # win) =>
             \/ HandleHotkey
             \/ MenuQuit /\ win' = "Destroyed"
                         /\ OVERLAY_VISIBLE' = OVERLAY_VISIBLE
       /\ HandleHotkey => (Exists(win') /\ Shown(win') # Shown(win))
       /\ Exists(win') => OVERLAY_VISIBLE' = Shown(win')
       /\ (TimerStep \/ PaintStep \/ Apply) =>
             (win' = win /\ OVERLAY_VISIBLE' = OVERLAY_VISIBLE)]_vars

\* The overlay has been toggled to Visible after an Apply, and a timer tick
\* and a paint have been handled since.
C1_Witness ==
    /\ win = "Visible" /\ OVERLAY_VISIBLE
    /\ applies > 0
    /\ pc = "wait" /\ ~paint_due

\* C2 as stated: whenever the overlay goes from Hidden to Visible after an
\* Apply, it is placed and blended with the most recently applied config,
\* whatever the outcome of that Apply's file save.
C2_ShowUsesLastApplied ==
    [][(win = "Hidden" /\ win' = "Visible" /\ last_applied.some) =>
          /\ win_rect' = calc_window_rect(last_applied.val, fg_monitor)
          /\ win_alpha' = alpha_of(last_applied.val)]_vars

\* The overlay is Visible with the alpha of the file's config although the
\* config applied last asks for another alpha.
C2_Witness ==
    /\ win = "Visible" /\ last_applied.some
    /\ win_alpha # alpha_of(last_applied.val)
    /\ win_alpha = alpha_of(load_from(file))

\* round(opacity / 100 * 255), halves upwards
C17_Round(opacity) == (2 * opacity * 255 + 100) \div 200

\* The steps that set the window's alpha: creation, show, timer tick.
C17_AlphaStep ==
    \/ Startup /\ pc' = "top"
    \/ HandleHotkey /\ win' = "Visible"
    \/ TimerStep

\* C17 as stated: the alpha applied at creation, on show and on every timer
\* tick is round(opacity / 100 * 255) of the config in the cell.
C17_AlphaRounded ==
    [][C17_AlphaStep =>
          win_alpha' = C17_Round(get_config_of(OVERLAY_CONFIG').opacity)]_vars

\* The overlay is Visible with opacity 25 in the cell and alpha 63, where
\* round(63.75) is 64.
C17_Witness ==
    /\ win = "Visible"
    /\ get_config_of(OVERLAY_CONFIG).opacity = 25
    /\ win_alpha = 63
    /\ C17_Round(25) = 64

\* The config an Apply click applies: the form's config with the hotkey
\* string of the two combo boxes.
C18_Applied ==
    [app.config EXCEPT
        !.hotkey = build_hotkey_string(app.selected_mod, app.selected_key)]

C18_Drawn(config) ==
    [font_size |-> config.font_size, format_24h |-> config.format_24h,
     show_seconds |-> config.show_seconds, text_style |-> config.text_style,
     text_color |-> config.text_color, outline_color |-> config.outline_color]

LoopStep ==
    \/ Startup
    \/ LoopTop
    \/ MenuQuit
    \/ MenuDone
    \/ HandleHotkey
    \/ DispatchPaint
    \/ DispatchTimer
    \/ MessagesDone
    \/ WaitReturns
    \/ SettingsPumpPaint
    \/ SettingsPumpTimer
    \/ SettingsPumpHotkey

SpecFair == Init /\ [][Next]_vars /\ WF_vars(LoopStep) /\ WF_vars(TimerElapses)

\* The loop acts on the flag: unregister, then register what the file holds.
C20_Acts ==
    /\ LoopTop \/ CloseSettings
    /\ HOTKEY_REREGISTER
    /\ \E ok \in BOOLEAN : registered' = register_hotkey({}, load_from(file), ok)

\* Every Apply sets the flag.
C20_ApplySetsFlag == [][Apply => HOTKEY_REREGISTER']_vars

\* A set flag is cleared only by the loop acting on it, and is false after.
C20_NeverLost ==
    [][(HOTKEY_REREGISTER /\ ~HOTKEY_REREGISTER' => C20_Acts)
       /\ (C20_Acts => ~HOTKEY_REREGISTER')]_vars

\* Once set, the flag is eventually observed and cleared.
C20_EventuallyObserved == HOTKEY_REREGISTER ~> ~HOTKEY_REREGISTER

\* C20: every settings Apply sets the re-register flag; once it is set the
\* event-loop thread eventually observes it, clears it and re-registers the
\* hotkey (unregister, then register), even when no OS message ever arrives;
\* a set flag is never lost, and the flag is false after the loop has acted.
C20_ReregisterFlag ==
    /\ C20_ApplySetsFlag
    /\ C20_NeverLost
    /\ C20_EventuallyObserved

\* An Apply has set the flag and the main thread is inside open_settings.
C20_Witness ==
    /\ pc = "settings"
    /\ HOTKEY_REREGISTER
    /\ applies = 1
    /\ posted = <<>>

(***************************************************************************)
(* The main loop while the settings window is open.                        *)
(***************************************************************************)
\* A WM_HOTKEY is taken from the thread's queue.
HotkeyConsumed == posted # <<>> /\ Head(posted) = "WM_HOTKEY" /\ posted' = Tail(posted)

\* Every consumed hotkey signal flips the overlay's visibility.
C21_HotkeyServiced == [][HotkeyConsumed => Shown(win') # Shown(win)]_vars

\* A tray menu event that waits while the settings window is open is handled.
C21_MenuServiced == (pc = "settings" /\ menu_events # <<>>) ~> (menu_events = <<>>)

\* C21: while the settings flow is open the event loop keeps servicing its
\* queue: a hotkey toggle signal that arrives while the settings window is
\* open is consumed and flips the overlay's visibility, and tray menu events
\* are still handled, without waiting for the settings window to close.
C21_LoopServicedDuringSettings ==
    /\ C21_HotkeyServiced
    /\ C21_MenuServiced

\* A hotkey signal and a tray menu event wait while the settings window is open.
C21_Witness ==
    /\ pc = "settings"
    /\ posted = <<"WM_HOTKEY">>
    /\ menu_events # <<>>

(***************************************************************************)
(* Registration of the global hotkey.                                      *)
(***************************************************************************)
\* A step that calls RegisterHotKey: main.rs 148, 178 or 193.
RegistrationAttempt ==
    \/ Startup /\ pc' = "top"
    \/ (LoopTop \/ CloseSettings) /\ HOTKEY_REREGISTER

\* A failed attempt shows the warning and leaves the program running.
C22_FailureWarned ==
    [][RegistrationAttempt /\ registered' = {}
         => /\ hotkey_error'.some
            /\ pc' \in {"top", "menu"}
            /\ Exists(win') /\ timer_on'
            /\ UNCHANGED <<OVERLAY_VISIBLE, menu_events>>]_vars

\* After a warning the loop runs on with its window and its timer.
C22_StillRunning ==
    [](hotkey_error.some /\ pc # "exited" => Running /\ Exists(win) /\ timer_on)

\* Every Apply asks for a new attempt, and a request ends in an attempt.
C22_Retried ==
    [][/\ Apply => HOTKEY_REREGISTER'
       /\ HOTKEY_REREGISTER /\ ~HOTKEY_REREGISTER' => RegistrationAttempt]_vars

\* C22: a failed hotkey registration (at startup or at any re-registration)
\* is non-fatal: a warning is shown, the event loop keeps running with the
\* overlay window, timer and tray still working, and every later settings
\* Apply triggers a new registration attempt.
C22_RegistrationFailureNonFatal ==
    /\ C22_FailureWarned
    /\ C22_StillRunning
    /\ C22_Retried

\* After a failed startup registration the tray opened the settings window,
\* an Apply was made and the attempt that followed failed as well; the timer
\* ticked and the overlay was placed by it.
C22_Witness ==
    /\ hotkey_error.some /\ registered = {}
    /\ applies = 1 /\ pc = "msgs"
    /\ attempted = Some(parsed_hotkey(last_applied.val))
    /\ attempted # Some(parsed_hotkey(DefaultConfig))
    /\ paint_due

(***************************************************************************)
(* Failures in Overlay::new.                                               *)
(***************************************************************************)
\* C23: failure of window-class registration or of window creation in
\* Overlay::new is fatal at startup: the process terminates in either case
\* (it panics and takes no further step), and the message loop is never
\* entered without a created window and a started timer.
C23_CreationFailureFatal ==
    /\ [](wnd_class = "failed" => pc = "panicked")
    /\ [](win = "None" /\ pc # "start" => pc = "panicked")
    /\ [][pc # "panicked"]_vars
    /\ [](Running => Exists(win) /\ timer_on /\ wnd_class = "registered")

\* The class could not be registered, and the process has panicked.
C23_Witness ==
    /\ wnd_class = "failed"
    /\ pc = "panicked"
    /\ win = "None"
    /\ ~timer_on

\* The class was registered, the window could not be created.
C23_WitnessCreation ==
    /\ wnd_class = "registered"
    /\ pc = "panicked"
    /\ win = "None"
    /\ ~timer_on

(***************************************************************************)
(* Quit: Overlay::destroy and the end of the loop.                         *)
(***************************************************************************)
\* C24: destroy is terminal: after the Quit signal destroys the window, the
\* timer is stopped, no further timer tick, paint, show or hide is handled,
\* the main loop exits and the hotkey is unregistered.
C24_DestroyTerminal ==
    /\ [][MenuQuit => /\ win' = "Destroyed"
                      /\ ~timer_on' /\ ~timer_due' /\ ~paint_due'
                      /\ pc' = "exited"
                      /\ registered' = {}]_vars
    /\ [](win = "Destroyed" => /\ ~timer_on /\ ~timer_due /\ ~paint_due
                               /\ pc = "exited"
                               /\ registered = {})
    /\ [][win = "Destroyed" => /\ ~(TimerStep \/ PaintStep \/ HandleHotkey)
                               /\ win' = "Destroyed"]_vars
    /\ [](pc = "exited" => win = "Destroyed")

\* Quit was chosen while the overlay was shown and painted, with the hotkey
\* registered and a hotkey message still in the queue.
C24_Witness ==
    /\ win = "Destroyed"
    /\ pc = "exited"
    /\ OVERLAY_VISIBLE
    /\ painted.some
    /\ attempted.some /\ ~hotkey_error.some
    /\ posted # <<>>

(***************************************************************************)
(* The 1000 ms timer of the overlay window.                                *)
(***************************************************************************)
\* What a tick leaves behind, from the shared config and the window's monitor.
Ticked ==
    LET config == get_config_of(OVERLAY_CONFIG)
    IN  /\ win_rect' = calc_window_rect(config, monitor_rect_for_window(win_rect))
        /\ win_alpha' = alpha_of(config)
        /\ win_key' = COLOR_KEY
        /\ paint_due'
        /\ UNCHANGED <<win, timer_on, OVERLAY_CONFIG>>

\* C25: the periodic timer runs from creation until destroy in both states:
\* hide does not stop it and show does not restart it, and every tick,
\* whether the overlay is Hidden or Visible, recomputes placement from the
\* current shared config, reapplies alpha and colour key and requests a
\* repaint; the timer is cancelled only at destroy.
C25_TimerRunsUntilDestroy ==
    /\ [](timer_on <=> Exists(win))
    /\ [][timer_on # timer_on' => Startup \/ MenuQuit]_vars
    /\ [][HandleHotkey => UNCHANGED <<timer_on, timer_due>>]_vars
    /\ [][TimerStep => Exists(win) /\ Ticked]_vars
    /\ [](timer_due => timer_on)

\* A tick has placed the never-shown, hidden overlay by an applied config.
C25_Witness ==
    /\ win = "Hidden" /\ ~OVERLAY_VISIBLE
    /\ painted = None
    /\ paint_due /\ ~timer_due
    /\ applies = 1
    /\ win_rect = calc_window_rect(last_applied.val, PRIMARY)
    /\ win_rect # calc_window_rect(load_from(file), PRIMARY)
    /\ win_alpha = alpha_of(last_applied.val)

(***************************************************************************)
(* The monitor the overlay is placed on.                                   *)
(***************************************************************************)
ShowStep == HandleHotkey /\ ~OVERLAY_VISIBLE

OwnMonitor(rect) == monitor_rect_for_window(rect)

\* C26: a timer tick places the overlay on the monitor the overlay window is
\* currently on, and show places it on the monitor of the current foreground
\* window: between two consecutive shows, a change of the foreground
\* window's monitor never moves the overlay to another monitor; it
\* re-anchors only at the next show.
C26_MonitorOfPlacement ==
    /\ [][TimerStep =>
            win_rect' = calc_window_rect(get_config_of(OVERLAY_CONFIG),
                                         OwnMonitor(win_rect))]_vars
    /\ [][ShowStep =>
            /\ win_rect' = calc_window_rect(get_config_of(OVERLAY_CONFIG'),
                                            fg_monitor)
            /\ OwnMonitor(win_rect') = fg_monitor]_vars
    /\ [][ForegroundMoves => UNCHANGED win_rect]_vars
    /\ [][Exists(win) /\ ~ShowStep => OwnMonitor(win_rect') = OwnMonitor(win_rect)]_vars

\* The overlay is shown on one monitor, the foreground window is on the
\* other, and a tick has since placed the overlay by a config that only the
\* cell holds.
C26_Witness ==
    /\ win = "Visible"
    /\ fg_monitor # OwnMonitor(win_rect)
    /\ OwnMonitor(win_rect) = OFFSET
    /\ applies = 1
    /\ win_rect = calc_window_rect(last_applied.val, OFFSET)
    /\ win_rect # calc_window_rect(load_from(file), OFFSET)

(***************************************************************************)
(* The combination a re-registration asks for.                             *)
(***************************************************************************)
\* C27: after a settings Apply of config C, the hotkey combination that the
\* following re-registration attempts to register is parsed_hotkey(C), i.e.
\* re-registration re-reads the applied configuration fresh, for every
\* outcome of the Apply's file save.
C27_ReregistersApplied ==
    [][RegistrationAttempt /\ last_applied.some
         => attempted' = Some(parsed_hotkey(last_applied.val))]_vars

\* An Apply whose save failed was followed by a re-registration that asked
\* for the combination of the file, not for the applied one.
C27_Witness ==
    /\ applies = 1
    /\ ~HOTKEY_REREGISTER
    /\ pc = "menu"
    /\ attempted = Some(parsed_hotkey(load_from(file)))
    /\ attempted # Some(parsed_hotkey(last_applied.val))
    /\ get_config_of(OVERLAY_CONFIG) = last_applied.val

(***************************************************************************)
(* What the registration warning names.                                    *)
(***************************************************************************)
\* C33: when a hotkey registration fails, the warning shown names the
\* combination whose registration was attempted (the pair parsed_hotkey
\* produced for the config), also when the configured string is invalid and
\* the Ctrl+F12 fallback was attempted.
C33_WarningNamesAttempt ==
    hotkey_error.some => parse_hotkey(hotkey_error.val) = attempted

\* The file's hotkey line reads "F1": the fallback Ctrl+F12 was attempted at
\* startup and refused, and the warning shows "F1".
C33_Witness ==
    /\ Running
    /\ file = Mistyped
    /\ registered = {}
    /\ attempted = Some(<<MOD_CONTROL, VK_F12>>)
    /\ hotkey_error = Some(<<"F", "1">>)

(***************************************************************************)
(* The ranges of the config in the cell.                                   *)
(***************************************************************************)
\* C35: after any sequence of startup load, settings open, slider edits,
\* Reset to Defaults, Apply and hotkey toggles, the config held in the
\* shared cell (and so every config used by show, timer tick and paint) has
\* font_size in [10,60] and opacity in [25,100]; the applied alpha is never
\* 0 and the window width and height are always positive.
C35_CellInRange ==
    LET config == get_config_of(OVERLAY_CONFIG)
    IN  /\ config.font_size \in 10..60
        /\ config.opacity \in 25..100
        /\ painted.some => painted.val.font_size \in 10..60
        /\ win \in {"Hidden", "Visible"} =>
              /\ win_alpha \in 1..U8Max
              /\ win_rect[3] > 0
              /\ win_rect[4] > 0

\* The file asked for opacity 5 and font size 75; after an Apply of the
\* settings form and a toggle the overlay is visible with the smallest
\* opacity and the largest font the ranges allow.
C35_Witness ==
    /\ applies = 1
    /\ win = "Visible"
    /\ OVERLAY_CONFIG.some
    /\ OVERLAY_CONFIG.val.opacity = 25
    /\ OVERLAY_CONFIG.val.font_size = 60
    /\ win_alpha = 63
    /\ win_rect[4] = 76
    /\ painted.some

(***************************************************************************)
(* What a re-registration leaves registered.                               *)
(***************************************************************************)
\* C36: re-registration unregisters the current hotkey before attempting
\* the new one and does not restore it: if the new registration fails, no
\* hotkey is registered by the process until a later re-registration
\* succeeds; at most one combination is registered at any time.
C36_ReregistrationReplaces ==
    /\ [](Cardinality(registered) <= 1)
    /\ [][(LoopTop \/ CloseSettings) /\ HOTKEY_REREGISTER =>
            /\ registered' \in {{}, {parsed_hotkey(load_from(file))}}
            /\ hotkey_error'.some => registered' = {}]_vars
    /\ [][registered = {} /\ registered' # {} => RegistrationAttempt]_vars

\* The form's combination was applied and its registration was refused:
\* nothing is registered, and the program runs on.
C36_Witness ==
    /\ Running
    /\ applies = 1
    /\ registered = {}
    /\ hotkey_error = Some(last_applied.val.hotkey)
    /\ attempted = Some(parsed_hotkey(last_applied.val))
    /\ ~HOTKEY_REREGISTER

\* A re-registration has replaced Ctrl+F12 by the applied combination.
C36_WitnessReplaced ==
    /\ Running
    /\ applies = 1
    /\ ~HOTKEY_REREGISTER
    /\ registered = {parsed_hotkey(last_applied.val)}
    /\ registered # {<<MOD_CONTROL, VK_F12>>}
====
